---- MODULE Spec2Model ----
(***************************************************************************)
(* Staleness decision and investigation-record persistence of repo-swarm.  *)
(*                                                                         *)
(* The model covers the activity check_if_repo_needs_investigation, the   *)
(* activity save_investigation_metadata, the DynamoDB client methods they  *)
(* call, and the InvestigationCache decision logic behind them.            *)
(*                                                                         *)
(* Python dictionaries are modelled as TLA+ functions whose domain is the  *)
(* set of keys.  A dictionary of prompt versions is iterated in the        *)
(* configured step order (StepOrder), which is the order in which the      *)
(* workflow inserts the keys.                                              *)
(***************************************************************************)
EXTENDS Integers, Sequences, FiniteSets, TLC

(***************************************************************************)
(* Bounds of the model.                                                    *)
(***************************************************************************)
NumSteps == 2
MaxVersion == 2

(***************************************************************************)
(* Value domains.                                                          *)
(***************************************************************************)
StepOrder == <<"hl_overview", "dependencies", "apis", "monitoring", "events">>
Steps == {StepOrder[i] : i \in 1..NumSteps}
StepIndex(s) == CHOOSE i \in 1..Len(StepOrder) : StepOrder[i] = s

Versions == {ToString(v) : v \in 1..MaxVersion}
DefaultVersion == "1"

\* commits and branches are only compared for equality: two of each
Commits == {"abc123def456", "def456789012"}
Branches == {"main", "develop"}
Repos == {"test-repo"}

\* Optional[Dict[str, str]]: either None or a dictionary step -> version
None == [given |-> FALSE]
Dict(f) == [given |-> TRUE, versions |-> f]
VersionDicts == UNION {[S -> Versions] : S \in SUBSET Steps}
PromptVersionInputs == {None} \cup {Dict(f) : f \in VersionDicts}

\* dict.get(key, default)
Get(d, k, default) == IF k \in DOMAIN d THEN d[k] ELSE default

\* first key of a set of steps in dictionary iteration order
FirstStep(S) == CHOOSE s \in S : \A t \in S : StepIndex(s) <= StepIndex(t)

(***************************************************************************)
(* Records of the metadata store.                                          *)
(***************************************************************************)
NoRecord == [exists |-> FALSE]
NoPromptMetadata == [present |-> FALSE]
PromptMetadata(versions) ==
    [present |-> TRUE, count |-> Cardinality(DOMAIN versions), versions |-> versions]

InvestigationMetadata(commit, branch, pm) ==
    [exists |-> TRUE, latest_commit |-> commit, branch_name |-> branch,
     prompt_metadata |-> pm]

RepositoryState(commit, branch, dirty) ==
    [commit_sha |-> commit, branch_name |-> branch, has_uncommitted_changes |-> dirty]

(***************************************************************************)
(* Decisions and their reasons.  A reason is the format string of the      *)
(* source (text) together with the values that are interpolated into it.   *)
(***************************************************************************)
Reason(text, step, old, new) ==
    [text |-> text, step |-> step, old |-> old, new |-> new, error |-> ""]
ErrorReason(e) ==
    [text |-> "Unable to check previous investigations (storage error: {e})",
     step |-> "", old |-> "", new |-> "", error |-> e]

NoChange == [changed |-> FALSE]
Change(reason) == [changed |-> TRUE, reason |-> reason]

InvestigationDecision(needs, reason, commit, branch, last) ==
    [needs_investigation |-> needs, reason |-> reason, latest_commit |-> commit,
     branch_name |-> branch, last_investigation |-> last]

\* outcomes of a call that may raise
Ok(v) == [ok |-> TRUE, value |-> v]
Raise(e) == [ok |-> FALSE, error |-> e]
\* the exception texts of the git reads, of get_dynamodb_client and of the table query
GitErrors == {"InvalidGitRepositoryError"}
ClientErrors == {"NoCredentialsError"}
QueryErrors == {"Connection timeout"}
ErrorTexts == GitErrors \cup ClientErrors \cup QueryErrors

\* variant: the per-step versions are compared before the stored count
check_prompt_version_changes_versions_first(pv, rec) ==
    IF ~pv.given THEN NoChange
    ELSE
      LET current == pv.versions
          meta == rec.prompt_metadata
          last_versions == IF meta.present THEN meta.versions ELSE << >>
          updated == {s \in DOMAIN current : current[s] # DefaultVersion}
          changed == {s \in DOMAIN current :
                         Get(last_versions, s, DefaultVersion) # current[s]}
          removed == DOMAIN last_versions \ DOMAIN current
      IN  IF DOMAIN last_versions = {} THEN
             IF updated # {}
             THEN Change(Reason("{step} updated to v{new} (no previous version tracking)",
                                FirstStep(updated), "", current[FirstStep(updated)]))
             ELSE NoChange
          ELSE IF changed # {} THEN
             Change(Reason("{step} version changed: v{old} -> v{new}",
                           FirstStep(changed),
                           Get(last_versions, FirstStep(changed), DefaultVersion),
                           current[FirstStep(changed)]))
          ELSE IF meta.count # Cardinality(DOMAIN current) THEN
             Change(Reason("Prompt count changed: {old} -> {new}", "",
                           ToString(meta.count), ToString(Cardinality(DOMAIN current))))
          ELSE IF removed # {} THEN
             Change(Reason("{step} removed", FirstStep(removed),
                           last_versions[FirstStep(removed)], ""))
          ELSE NoChange

\* variant: a record without versions is treated as one with a stored count of 0
check_prompt_version_changes_counts_untracked(pv, rec) ==
    IF ~pv.given THEN NoChange
    ELSE
      LET current == pv.versions
          meta == rec.prompt_metadata
          last_versions == IF meta.present THEN meta.versions ELSE << >>
          updated == {s \in DOMAIN current : current[s] # DefaultVersion}
          changed == {s \in DOMAIN current :
                         Get(last_versions, s, DefaultVersion) # current[s]}
          removed == DOMAIN last_versions \ DOMAIN current
      IN  IF DOMAIN last_versions = {} /\ updated # {} THEN
             Change(Reason("{step} updated to v{new} (no previous version tracking)",
                           FirstStep(updated), "", current[FirstStep(updated)]))
          ELSE IF (IF meta.present THEN meta.count ELSE 0) # Cardinality(DOMAIN current) THEN
             Change(Reason("Prompt count changed: {old} -> {new}", "",
                           ToString(IF meta.present THEN meta.count ELSE 0),
                           ToString(Cardinality(DOMAIN current))))
          ELSE IF changed # {} THEN
             Change(Reason("{step} version changed: v{old} -> v{new}",
                           FirstStep(changed),
                           Get(last_versions, FirstStep(changed), DefaultVersion),
                           current[FirstStep(changed)]))
          ELSE IF removed # {} THEN
             Change(Reason("{step} removed", FirstStep(removed),
                           last_versions[FirstStep(removed)], ""))
          ELSE NoChange

\* variant: a current step that is absent from the record is not compared
check_prompt_version_changes_skips_untracked(pv, rec) ==
    IF ~pv.given THEN NoChange
    ELSE
      LET current == pv.versions
          meta == rec.prompt_metadata
          last_versions == IF meta.present THEN meta.versions ELSE << >>
          updated == {s \in DOMAIN current : current[s] # DefaultVersion}
          changed == {s \in DOMAIN current :
                         Get(last_versions, s, current[s]) # current[s]}
          removed == DOMAIN last_versions \ DOMAIN current
      IN  IF DOMAIN last_versions = {} THEN
             IF updated # {}
             THEN Change(Reason("{step} updated to v{new} (no previous version tracking)",
                                FirstStep(updated), "", current[FirstStep(updated)]))
             ELSE NoChange
          ELSE IF meta.count # Cardinality(DOMAIN current) THEN
             Change(Reason("Prompt count changed: {old} -> {new}", "",
                           ToString(meta.count), ToString(Cardinality(DOMAIN current))))
          ELSE IF changed # {} THEN
             Change(Reason("{step} version changed: v{old} -> v{new}",
                           FirstStep(changed),
                           Get(last_versions, FirstStep(changed), DefaultVersion),
                           current[FirstStep(changed)]))
          ELSE IF removed # {} THEN
             Change(Reason("{step} removed", FirstStep(removed),
                           last_versions[FirstStep(removed)], ""))
          ELSE NoChange

\* variant: stored steps that are no longer current are not looked for
check_prompt_version_changes_ignores_removed(pv, rec) ==
    IF ~pv.given THEN NoChange
    ELSE
      LET current == pv.versions
          meta == rec.prompt_metadata
          last_versions == IF meta.present THEN meta.versions ELSE << >>
          updated == {s \in DOMAIN current : current[s] # DefaultVersion}
          changed == {s \in DOMAIN current :
                         Get(last_versions, s, DefaultVersion) # current[s]}
          removed == DOMAIN last_versions \ DOMAIN current
      IN  IF DOMAIN last_versions = {} THEN
             IF updated # {}
             THEN Change(Reason("{step} updated to v{new} (no previous version tracking)",
                                FirstStep(updated), "", current[FirstStep(updated)]))
             ELSE NoChange
          ELSE IF meta.count # Cardinality(DOMAIN current) THEN
             Change(Reason("Prompt count changed: {old} -> {new}", "",
                           ToString(meta.count), ToString(Cardinality(DOMAIN current))))
          ELSE IF changed # {} THEN
             Change(Reason("{step} version changed: v{old} -> v{new}",
                           FirstStep(changed),
                           Get(last_versions, FirstStep(changed), DefaultVersion),
                           current[FirstStep(changed)]))
          ELSE NoChange

(***************************************************************************)
(* InvestigationCache._check_prompt_version_changes                        *)
(*   pv  : the current prompt versions (None or a dictionary)              *)
(*   rec : the last investigation record                                   *)
(* The steps are: no current versions; no stored versions; stored count;   *)
(* per-step versions; stored steps that are no longer current.             *)
(***************************************************************************)
check_prompt_version_changes(pv, rec) ==
    IF ~pv.given THEN NoChange
    ELSE
      LET current == pv.versions
          meta == rec.prompt_metadata
          last_versions == IF meta.present THEN meta.versions ELSE << >>
          updated == {s \in DOMAIN current : current[s] # DefaultVersion}
          changed == {s \in DOMAIN current :
                         Get(last_versions, s, DefaultVersion) # current[s]}
          removed == DOMAIN last_versions \ DOMAIN current
      IN  IF DOMAIN last_versions = {} THEN
             IF updated # {}
             THEN Change(Reason("{step} updated to v{new} (no previous version tracking)",
                                FirstStep(updated), "", current[FirstStep(updated)]))
             ELSE NoChange
          ELSE IF meta.count # Cardinality(DOMAIN current) THEN
             Change(Reason("Prompt count changed: {old} -> {new}", "",
                           ToString(meta.count), ToString(Cardinality(DOMAIN current))))
          ELSE IF changed # {} THEN
             Change(Reason("{step} version changed: v{old} -> v{new}",
                           FirstStep(changed),
                           Get(last_versions, FirstStep(changed), DefaultVersion),
                           current[FirstStep(changed)]))
          ELSE IF removed # {} THEN
             Change(Reason("{step} removed", FirstStep(removed),
                           last_versions[FirstStep(removed)], ""))
          ELSE NoChange

(***************************************************************************)
(* InvestigationCache.check_needs_investigation                            *)
(*   read : the outcome of storage_client.get_latest_investigation         *)
(* has_uncommitted_changes of current_state is not consulted.              *)
(***************************************************************************)
check_needs_investigation(repo_name, current_state, pv, read) ==
    IF ~read.ok THEN
       InvestigationDecision(TRUE, ErrorReason(read.error),
                             current_state.commit_sha, current_state.branch_name, NoRecord)
    ELSE
      LET last == read.value
          prompts == check_prompt_version_changes(pv, last)
      IN  IF ~last.exists THEN
             InvestigationDecision(TRUE, Reason("No previous investigation found", "", "", ""),
                                   current_state.commit_sha, current_state.branch_name, NoRecord)
          ELSE IF last.branch_name # current_state.branch_name THEN
             InvestigationDecision(TRUE,
                 Reason("Branch changed from {old} to {new}", "",
                        last.branch_name, current_state.branch_name),
                 current_state.commit_sha, current_state.branch_name, last)
          ELSE IF last.latest_commit # current_state.commit_sha THEN
             InvestigationDecision(TRUE,
                 Reason("New commits detected (was: {old}, now: {new})", "",
                        last.latest_commit, current_state.commit_sha),
                 current_state.commit_sha, current_state.branch_name, last)
          ELSE IF prompts.changed THEN
             InvestigationDecision(TRUE, prompts.reason,
                                   current_state.commit_sha, current_state.branch_name, last)
          ELSE
             InvestigationDecision(FALSE,
                 Reason("No changes since last investigation", "", "", ""),
                 current_state.commit_sha, current_state.branch_name, last)

\* variant: a failed query is reported as "no item"
get_latest_investigation_swallows_error(tbl, repository_name, fault) ==
    IF fault.ok THEN Ok(tbl[repository_name]) ELSE Ok(NoRecord)

\* variant: the first item is taken without looking whether there is one
get_latest_investigation_unchecked_index(tbl, repository_name, fault) ==
    IF ~fault.ok THEN Raise(fault.error)
    ELSE IF tbl[repository_name].exists THEN Ok(tbl[repository_name])
    ELSE Raise("list index out of range")

(***************************************************************************)
(* DynamoDBClient.get_latest_investigation: the newest item of the         *)
(* repository, None when there is none; a ClientError is re-raised.        *)
(***************************************************************************)
get_latest_investigation(tbl, repository_name, fault) ==
    IF fault.ok THEN Ok(tbl[repository_name]) ELSE Raise(fault.error)

\* conversion of an InvestigationDecision to the activity output
CacheCheckOutput(d) ==
    [needs_investigation |-> d.needs_investigation, reason |-> d.reason,
     latest_commit |-> d.latest_commit, branch_name |-> d.branch_name,
     last_investigation |-> d.last_investigation]

\* variant: the fallback of a failed store client does not ask for an investigation
check_if_repo_needs_investigation_skips_on_error(input_params, git, client, fault, tbl) ==
    IF ~git.ok THEN
       [needs_investigation |-> TRUE, reason |-> ErrorReason(git.error),
        latest_commit |-> "None", branch_name |-> "None",
        last_investigation |-> NoRecord]
    ELSE IF ~client.ok THEN
       [needs_investigation |-> FALSE, reason |-> ErrorReason(client.error),
        latest_commit |-> git.value.commit_sha, branch_name |-> git.value.branch_name,
        last_investigation |-> NoRecord]
    ELSE
       CacheCheckOutput(
           check_needs_investigation(
               input_params.repo_name, git.value, input_params.prompt_versions,
               get_latest_investigation(tbl, input_params.repo_name, fault)))

\* variant: the fallback reason does not carry the error text
check_if_repo_needs_investigation_hides_error(input_params, git, client, fault, tbl) ==
    IF ~git.ok THEN
       [needs_investigation |-> TRUE, reason |-> ErrorReason(git.error),
        latest_commit |-> "None", branch_name |-> "None",
        last_investigation |-> NoRecord]
    ELSE IF ~client.ok THEN
       [needs_investigation |-> TRUE, reason |-> ErrorReason(""),
        latest_commit |-> git.value.commit_sha, branch_name |-> git.value.branch_name,
        last_investigation |-> NoRecord]
    ELSE
       CacheCheckOutput(
           check_needs_investigation(
               input_params.repo_name, git.value, input_params.prompt_versions,
               get_latest_investigation(tbl, input_params.repo_name, fault)))

\* variant: a working copy with uncommitted changes is always investigated
check_if_repo_needs_investigation_checks_dirty(input_params, git, client, fault, tbl) ==
    IF ~git.ok THEN
       [needs_investigation |-> TRUE, reason |-> ErrorReason(git.error),
        latest_commit |-> "None", branch_name |-> "None",
        last_investigation |-> NoRecord]
    ELSE IF ~client.ok THEN
       [needs_investigation |-> TRUE, reason |-> ErrorReason(client.error),
        latest_commit |-> git.value.commit_sha, branch_name |-> git.value.branch_name,
        last_investigation |-> NoRecord]
    ELSE IF git.value.has_uncommitted_changes THEN
       [needs_investigation |-> TRUE,
        reason |-> Reason("Repository has uncommitted changes", "", "", ""),
        latest_commit |-> git.value.commit_sha, branch_name |-> git.value.branch_name,
        last_investigation |-> NoRecord]
    ELSE
       CacheCheckOutput(
           check_needs_investigation(
               input_params.repo_name, git.value, input_params.prompt_versions,
               get_latest_investigation(tbl, input_params.repo_name, fault)))

\* variant: a missing prompt-version map is passed on as an empty one
check_if_repo_needs_investigation_defaults_versions(input_params, git, client, fault, tbl) ==
    IF ~git.ok THEN
       [needs_investigation |-> TRUE, reason |-> ErrorReason(git.error),
        latest_commit |-> "None", branch_name |-> "None",
        last_investigation |-> NoRecord]
    ELSE IF ~client.ok THEN
       [needs_investigation |-> TRUE, reason |-> ErrorReason(client.error),
        latest_commit |-> git.value.commit_sha, branch_name |-> git.value.branch_name,
        last_investigation |-> NoRecord]
    ELSE
       CacheCheckOutput(
           check_needs_investigation(
               input_params.repo_name, git.value,
               IF input_params.prompt_versions.given
               THEN input_params.prompt_versions ELSE Dict(<< >>),
               get_latest_investigation(tbl, input_params.repo_name, fault)))

(***************************************************************************)
(* Activity check_if_repo_needs_investigation.                             *)
(*   git    : outcome of reading commit, branch and dirty flag             *)
(*   client : outcome of get_dynamodb_client()                             *)
(*   fault  : outcome of the table query                                   *)
(* Any exception ends in the fallback output; the fallback reads the git   *)
(* state of the same working copy once more, with the outcome of the first *)
(* read, and reports None when that fails.                                 *)
(***************************************************************************)
check_if_repo_needs_investigation(input_params, git, client, fault, tbl) ==
    IF ~git.ok THEN
       [needs_investigation |-> TRUE, reason |-> ErrorReason(git.error),
        latest_commit |-> "None", branch_name |-> "None",
        last_investigation |-> NoRecord]
    ELSE IF ~client.ok THEN
       [needs_investigation |-> TRUE, reason |-> ErrorReason(client.error),
        latest_commit |-> git.value.commit_sha, branch_name |-> git.value.branch_name,
        last_investigation |-> NoRecord]
    ELSE
       CacheCheckOutput(
           check_needs_investigation(
               input_params.repo_name, git.value, input_params.prompt_versions,
               get_latest_investigation(tbl, input_params.repo_name, fault)))

(***************************************************************************)
(* DynamoDBClient.save_investigation_metadata: put_item of a fresh item.   *)
(***************************************************************************)
client_save_investigation_metadata(tbl, repository_name, latest_commit, branch_name, analysis_data, fault) ==
    IF fault.ok
    THEN [table |-> [tbl EXCEPT ![repository_name] =
                        InvestigationMetadata(latest_commit, branch_name,
                                              analysis_data.prompt_metadata)],
          result |-> Ok("analysis_timestamp")]
    ELSE [table |-> tbl, result |-> Raise(fault.error)]

(***************************************************************************)
(* InvestigationCache.save_investigation_metadata: adds prompt_metadata    *)
(* (count and versions) when prompt versions are supplied and reports a    *)
(* storage failure in the result.                                          *)
(***************************************************************************)
cache_save_investigation_metadata(tbl, repo_name, commit_sha, branch_name, prompt_versions, fault) ==
    LET analysis_data ==
            [prompt_metadata |-> IF prompt_versions.given /\ DOMAIN prompt_versions.versions # {}
                                 THEN PromptMetadata(prompt_versions.versions)
                                 ELSE NoPromptMetadata]
        put == client_save_investigation_metadata(tbl, repo_name, commit_sha,
                                                  branch_name, analysis_data, fault)
    IN  IF put.result.ok
        THEN [table |-> put.table,
              result |-> [status |-> "success", message |-> "", timestamp |-> put.result.value]]
        ELSE [table |-> put.table,
              result |-> [status |-> "error", message |-> put.result.error,
                          timestamp |-> "None"]]

\* variant: a failed save still carries a timestamp
save_investigation_metadata_stamps_failure(input_params, client, fault, tbl) ==
    IF client.ok /\ fault.ok
    THEN cache_save_investigation_metadata(tbl, input_params.repo_name,
             input_params.latest_commit, input_params.branch_name,
             input_params.prompt_versions, fault)
    ELSE [table |-> tbl,
          result |-> [status |-> "error", message |-> "Failed to save investigation metadata",
                      timestamp |-> "analysis_timestamp"]]

(***************************************************************************)
(* Activity save_investigation_metadata.                                   *)
(***************************************************************************)
save_investigation_metadata(input_params, client, fault, tbl) ==
    IF ~client.ok
    THEN [table |-> tbl,
          result |-> [status |-> "error", message |-> client.error, timestamp |-> "None"]]
    ELSE cache_save_investigation_metadata(tbl, input_params.repo_name,
             input_params.latest_commit, input_params.branch_name,
             input_params.prompt_versions, fault)

(***************************************************************************)
(* Prompt result cache.                                                    *)
(*                                                                         *)
(* A result content is a text together with its size in bytes.  The store  *)
(* keeps, for every partition key, its items sorted by analysis_timestamp  *)
(* and a read takes the newest one (ScanIndexForward=False, Limit=1); the  *)
(* model keeps the newest item of every partition key that has one.  The   *)
(* passing of an item's ttl_timestamp is the flag expired of the item.     *)
(***************************************************************************)
CacheSteps == {"hl_overview"}
CacheVersions == {"1", "2"}
PromptTuples ==
    {[repo_name |-> r, step_name |-> s, commit_sha |-> c, prompt_version |-> v] :
        r \in Repos, s \in CacheSteps, c \in Commits, v \in CacheVersions}

Contents ==
    {[text |-> "Analysis content", size |-> 16],
     [text |-> "New overview content", size |-> 300 * 1024 + 1]}

\* variant: the key does not carry the prompt version
to_storage_key_without_version(repo_name, step_name, commit_sha, prompt_version) ==
    repo_name \o "_" \o step_name \o "_" \o commit_sha

\* variant: the version is appended without the letter v
to_storage_key_bare_version(repo_name, step_name, commit_sha, prompt_version) ==
    repo_name \o "_" \o step_name \o "_" \o commit_sha \o "_" \o prompt_version

\* variant: the key does not carry the commit
to_storage_key_without_commit(repo_name, step_name, commit_sha, prompt_version) ==
    repo_name \o "_" \o step_name \o "_v" \o prompt_version

\* PromptCacheKey.to_storage_key
to_storage_key(repo_name, step_name, commit_sha, prompt_version) ==
    repo_name \o "_" \o step_name \o "_" \o commit_sha \o "_v" \o prompt_version

KeyOf(t) == to_storage_key(t.repo_name, t.step_name, t.commit_sha, t.prompt_version)

\* AnalysisResultKey.to_storage_key: the partition key of a stored result
ResultPartition(reference_key) == "_result_" \o reference_key

\* the items of the store: a dictionary partition key -> newest item
NoItems == << >>
\* variant: put_item keeps the attributes of an item that is already stored
\* under the key and adds the others
PutItem_merging(tbl, p, item) ==
    [q \in DOMAIN tbl \cup {p} |->
        IF q = p /\ p \in DOMAIN tbl
        THEN [k \in DOMAIN item |-> IF k \in DOMAIN tbl[p] /\ k = "branch_name"
                                    THEN tbl[p][k] ELSE item[k]]
        ELSE IF q = p THEN item ELSE tbl[q]]
PutItem(tbl, p, item) == [q \in DOMAIN tbl \cup {p} |-> IF q = p THEN item ELSE tbl[q]]
CompressionThreshold == 300 * 1024
\* gzip.compress followed by base64.b64encode, and their inverses
Compress(content) == [gzip_base64 |-> content]
Decompress(compressed_b64) == compressed_b64.gzip_base64

\* variant: a partition key that already holds an item keeps it
save_analysis_result_keeps_existing(tbl, reference_key, result_content, step_name, ttl_minutes, fault) ==
    IF ~fault.ok THEN [table |-> tbl, result |-> Raise(fault.error)]
    ELSE
      LET compress == result_content.size > CompressionThreshold
          item == IF compress
                  THEN [reference_key |-> reference_key,
                        is_compressed |-> TRUE, payload |-> Compress(result_content),
                        step_name |-> step_name, ttl_minutes |-> ttl_minutes,
                        expired |-> FALSE]
                  ELSE [reference_key |-> reference_key,
                        is_compressed |-> FALSE, payload |-> result_content,
                        step_name |-> step_name, ttl_minutes |-> ttl_minutes,
                        expired |-> FALSE]
          p == ResultPartition(reference_key)
      IN  [table |-> IF p \in DOMAIN tbl /\ ~tbl[p].expired THEN tbl
                     ELSE PutItem(tbl, p, item),
           result |-> Ok([status |-> "success", result_key |-> reference_key,
                          ttl_minutes |-> ttl_minutes, is_compressed |-> compress])]

(***************************************************************************)
(* DynamoDBClient.save_analysis_result: put_item of a fresh item under     *)
(* "_result_{reference_key}"; a content above 300 KB is stored compressed. *)
(***************************************************************************)
save_analysis_result(tbl, reference_key, result_content, step_name, ttl_minutes, fault) ==
    IF ~fault.ok THEN [table |-> tbl, result |-> Raise(fault.error)]
    ELSE
      LET compress == result_content.size > CompressionThreshold
          item == IF compress
                  THEN [reference_key |-> reference_key,
                        is_compressed |-> TRUE, payload |-> Compress(result_content),
                        step_name |-> step_name, ttl_minutes |-> ttl_minutes,
                        expired |-> FALSE]
                  ELSE [reference_key |-> reference_key,
                        is_compressed |-> FALSE, payload |-> result_content,
                        step_name |-> step_name, ttl_minutes |-> ttl_minutes,
                        expired |-> FALSE]
      IN  [table |-> PutItem(tbl, ResultPartition(reference_key), item),
           result |-> Ok([status |-> "success", result_key |-> reference_key,
                          ttl_minutes |-> ttl_minutes, is_compressed |-> compress])]

\* variant: a compressed item is returned as it is stored
get_analysis_result_without_decompression(tbl, reference_key, fault) ==
    IF ~fault.ok THEN Raise(fault.error)
    ELSE
      LET p == ResultPartition(reference_key)
      IN  IF p \notin DOMAIN tbl THEN Ok(None)
          ELSE IF tbl[p].expired THEN Ok(None)
          ELSE Ok(tbl[p].payload)

(***************************************************************************)
(* DynamoDBClient.get_analysis_result: the content of the newest item of   *)
(* the key, decompressed when it is stored compressed; None when there is  *)
(* no item or its ttl_timestamp has passed; a ClientError is re-raised.    *)
(***************************************************************************)
get_analysis_result(tbl, reference_key, fault) ==
    IF ~fault.ok THEN Raise(fault.error)
    ELSE
      LET p == ResultPartition(reference_key)
      IN  IF p \notin DOMAIN tbl THEN Ok(None)
          ELSE IF tbl[p].expired THEN Ok(None)
          ELSE IF tbl[p].is_compressed THEN Ok(Decompress(tbl[p].payload))
          ELSE Ok(tbl[p].payload)

CacheReason(text, e) == [text |-> text, error |-> e]

\* variant: a storage error of the lookup is passed on to the caller
check_prompt_needs_analysis_reraises(tbl, repo_name, step_name, commit_sha, prompt_version, fault) ==
    LET cache_key == to_storage_key(repo_name, step_name, commit_sha, prompt_version)
        got == get_analysis_result(tbl, cache_key, fault)
    IN  IF ~got.ok THEN Raise(got.error)
        ELSE IF got.value # None
        THEN Ok([needs_analysis |-> FALSE, cached_result_key |-> cache_key,
                 cached_result |-> got.value,
                 reason |-> CacheReason("Using cached result", ""),
                 version |-> prompt_version])
        ELSE Ok([needs_analysis |-> TRUE, cached_result_key |-> "None",
                 cached_result |-> None,
                 reason |-> CacheReason("No cached result", ""),
                 version |-> prompt_version])

(***************************************************************************)
(* InvestigationCache.check_prompt_needs_analysis: looks the composite key *)
(* up; a hit is returned with its content, a miss and a storage error ask  *)
(* for a new analysis.                                                     *)
(***************************************************************************)
check_prompt_needs_analysis(tbl, repo_name, step_name, commit_sha, prompt_version, fault) ==
    LET cache_key == to_storage_key(repo_name, step_name, commit_sha, prompt_version)
        got == get_analysis_result(tbl, cache_key, fault)
    IN  IF ~got.ok
        THEN Ok([needs_analysis |-> TRUE, cached_result_key |-> "None",
                 cached_result |-> None,
                 reason |-> CacheReason("Cache check failed: {e}", got.error),
                 version |-> prompt_version])
        ELSE IF got.value # None
        THEN Ok([needs_analysis |-> FALSE, cached_result_key |-> cache_key,
                 cached_result |-> got.value,
                 reason |-> CacheReason("Using cached result", ""),
                 version |-> prompt_version])
        ELSE Ok([needs_analysis |-> TRUE, cached_result_key |-> "None",
                 cached_result |-> None,
                 reason |-> CacheReason("No cached result", ""),
                 version |-> prompt_version])

(***************************************************************************)
(* InvestigationCache.save_prompt_result: writes the content under the     *)
(* composite key with the TTL in minutes; a storage failure is reported in *)
(* the result.                                                             *)
(***************************************************************************)
save_prompt_result(tbl, repo_name, step_name, commit_sha, result_content, prompt_version, ttl_days, fault) ==
    LET cache_key == to_storage_key(repo_name, step_name, commit_sha, prompt_version)
        put == save_analysis_result(tbl, cache_key, result_content, step_name,
                                    ttl_days * 24 * 60, fault)
    IN  IF put.result.ok
        THEN [table |-> put.table,
              result |-> [status |-> "success", message |-> step_name,
                          cache_key |-> cache_key]]
        ELSE [table |-> put.table,
              result |-> [status |-> "error", message |-> put.result.error,
                          cache_key |-> "None"]]

(***************************************************************************)
(* AnalysisResultsCollector.                                               *)
(*                                                                         *)
(* A step configuration is a dictionary with the keys name, description    *)
(* and, optionally, required.  None and the empty string are the contents  *)
(* Python treats as false.  The outcome of combine_results is its return   *)
(* value or the raised error, the log it wrote and the value of            *)
(* combined_results when the loop ended.                                   *)
(***************************************************************************)
SectionNames == {"hl_overview", "apis", "monitoring"}
Truthy(content) == content # "" /\ content # "None"
LogRecord(level, text, step) == [level |-> level, text |-> text, step |-> step]

\* variant: a cached result of the current version is preferred to a new one
select_content_prefers_matching_cache(step_name, results_map, cached_results_map, prompt_versions) ==
    LET current_version == Get(prompt_versions, step_name, "1")
        cached_result == Get(cached_results_map, step_name, << >>)
        cached_version == Get(cached_result, "version", "None")
        cached_content == Get(cached_result, "content", "None")
    IN  IF Truthy(cached_content) /\ cached_version = current_version
        THEN [content |-> cached_content, use_cached |-> TRUE,
              log |-> <<LogRecord("info", "Using cached result for step", step_name)>>]
        ELSE IF step_name \in DOMAIN results_map
        THEN [content |-> results_map[step_name], use_cached |-> FALSE,
              log |-> <<LogRecord("info", "Using new result for step", step_name)>>]
        ELSE IF Truthy(cached_content)
        THEN [content |-> cached_content, use_cached |-> TRUE,
              log |-> <<LogRecord("warning", "Using outdated cached result for step",
                                  step_name)>>]
        ELSE [content |-> "None", use_cached |-> FALSE, log |-> << >>]

(***************************************************************************)
(* combine_results, the choice between the cached and the new result of    *)
(* one step of the processing order.                                       *)
(***************************************************************************)
select_content(step_name, results_map, cached_results_map, prompt_versions) ==
    LET current_version == Get(prompt_versions, step_name, "1")
        cached_result == Get(cached_results_map, step_name, << >>)
        cached_version == Get(cached_result, "version", "None")
        cached_content == Get(cached_result, "content", "None")
    IN  IF Truthy(cached_content) /\ cached_version = current_version
           /\ step_name \notin DOMAIN results_map
        THEN [content |-> cached_content, use_cached |-> TRUE,
              log |-> <<LogRecord("info", "Using cached result for step", step_name)>>]
        ELSE IF step_name \in DOMAIN results_map
        THEN [content |-> results_map[step_name], use_cached |-> FALSE,
              log |-> <<LogRecord("info", "Using new result for step", step_name)>>]
        ELSE IF Truthy(cached_content)
        THEN [content |-> cached_content, use_cached |-> TRUE,
              log |-> <<LogRecord("warning", "Using outdated cached result for step",
                                  step_name)>>]
        ELSE [content |-> "None", use_cached |-> FALSE, log |-> << >>]

\* the dictionary appended to combined_results for a step with content
result_dict(step_config, chosen, step_results, cached_results_map, prompt_versions) ==
    LET step_name == step_config.name
        base == [name |-> step_name,
                 description |-> Get(step_config, "description", ""),
                 content |-> chosen.content,
                 version |-> Get(prompt_versions, step_name, "1"),
                 cached |-> chosen.use_cached]
        tracked == IF step_name \in DOMAIN step_results
                   THEN [result_key |-> step_results[step_name].result_key,
                         required |-> step_results[step_name].required]
                   ELSE << >>
        stamp == IF chosen.use_cached
                 THEN [cache_timestamp |->
                         Get(cached_results_map[step_name], "timestamp", "None")]
                 ELSE << >>
    IN  [k \in DOMAIN base \cup DOMAIN tracked \cup DOMAIN stamp |->
            IF k \in DOMAIN base THEN base[k]
            ELSE IF k \in DOMAIN tracked THEN tracked[k] ELSE stamp[k]]

(***************************************************************************)
(* combine_results, the loop over processing_order from its i-th step on;  *)
(* acc holds combined_results, the log and the two counters.               *)
(***************************************************************************)
RECURSIVE combine_loop(_, _, _, _, _, _, _)
combine_loop(processing_order, i, acc, step_results, results_map, cached_results_map, prompt_versions) ==
    IF i > Len(processing_order) THEN acc
    ELSE
      LET step_config == processing_order[i]
          step_name == step_config.name
          chosen == select_content(step_name, results_map, cached_results_map,
                                   prompt_versions)
          counted == [acc EXCEPT
                        !.cached_count = IF chosen.use_cached THEN @ + 1 ELSE @,
                        !.new_count = IF ~chosen.use_cached
                                         /\ step_name \in DOMAIN results_map
                                      THEN @ + 1 ELSE @,
                        !.log = @ \o chosen.log]
          next ==
            IF Truthy(chosen.content)
            THEN [counted EXCEPT
                    !.combined_results =
                        Append(@, result_dict(step_config, chosen, step_results,
                                              cached_results_map, prompt_versions))]
            ELSE IF Get(step_config, "required", TRUE)
            THEN [counted EXCEPT
                    !.log = Append(@, LogRecord("error", "Missing required step in results",
                                                step_name))]
            ELSE [counted EXCEPT
                    !.log = Append(@, LogRecord("info", "Optional step not in results",
                                                step_name))]
      IN  combine_loop(processing_order, i + 1, next, step_results, results_map,
                       cached_results_map, prompt_versions)

SeqToSet(seq) == {seq[i] : i \in 1..Len(seq)}
ResultNames(combined_results) == {combined_results[i].name : i \in 1..Len(combined_results)}

\* variant: the missing critical section is only logged
critical_section_missing_only_logged(base_sections, result_names) ==
    FALSE

\* variant: every missing base section is an error of the merge
critical_section_missing_any_base(base_sections, result_names) ==
    /\ base_sections # << >>
    /\ SeqToSet(base_sections) \ result_names # {}

\* combine_results, the special validation of the monitoring section
critical_section_missing(base_sections, result_names) ==
    /\ base_sections # << >>
    /\ "monitoring" \in SeqToSet(base_sections)
    /\ "monitoring" \notin result_names

\* the steps of the processing order, those with a new result first
FreshFirst(processing_order, results_map) ==
    SelectSeq(processing_order, LAMBDA c : c.name \in DOMAIN results_map)
      \o SelectSeq(processing_order, LAMBDA c : c.name \notin DOMAIN results_map)

\* variant: the new results are combined before the cached ones
combine_results_fresh_first(base_sections, step_results, results_map, processing_order, cached_results_map, prompt_versions) ==
    LET acc == combine_loop(FreshFirst(processing_order, results_map), 1,
                            [combined_results |-> << >>, log |-> << >>,
                             cached_count |-> 0, new_count |-> 0],
                            step_results, results_map, cached_results_map, prompt_versions)
    IN  [result |-> IF critical_section_missing(base_sections,
                                                ResultNames(acc.combined_results))
                    THEN Raise("Critical: Monitoring section missing from final results!")
                    ELSE Ok(acc.combined_results),
         log |-> acc.log,
         combined_results |-> acc.combined_results,
         cached_count |-> acc.cached_count, new_count |-> acc.new_count]

(***************************************************************************)
(* AnalysisResultsCollector.combine_results                                *)
(*   base_sections, step_results : the fields of the collector             *)
(***************************************************************************)
combine_results(base_sections, step_results, results_map, processing_order, cached_results_map, prompt_versions) ==
    LET acc == combine_loop(processing_order, 1,
                            [combined_results |-> << >>, log |-> << >>,
                             cached_count |-> 0, new_count |-> 0],
                            step_results, results_map, cached_results_map, prompt_versions)
        result_names == ResultNames(acc.combined_results)
        missing_base == IF base_sections # << >>
                        THEN SelectSeq(base_sections, LAMBDA s : s \notin result_names)
                        ELSE << >>
        log == IF missing_base # << >>
               THEN Append(acc.log, LogRecord("error",
                               "Base sections missing from combined results", ""))
               ELSE acc.log
    IN  [result |-> IF critical_section_missing(base_sections, result_names)
                    THEN Raise("Critical: Monitoring section missing from final results!")
                    ELSE Ok(acc.combined_results),
         log |-> log,
         combined_results |-> acc.combined_results,
         cached_count |-> acc.cached_count, new_count |-> acc.new_count]

(***************************************************************************)
(* The final document.  A text is the sequence of its blocks, the pieces   *)
(* between blank lines: the section of a result is the heading "# name",   *)
(* the description if there is one, and the content; sections are joined   *)
(* by blank lines.                                                         *)
(***************************************************************************)
Heading(name) == "# " \o name
\* a content that holds the line "## Monitoring"
MonitoringMention == "## Monitoring\nNo monitoring found"
\* "# monitoring\n" in text.lower(), for a block followed by a line break
HasMonitoringLine(block) == block \in {Heading("monitoring"), MonitoringMention}

\* generate_final_analysis, the section of one result
Section(result) ==
    <<Heading(result.name)>>
      \o (IF Get(result, "description", "") # "" THEN <<result.description>> ELSE << >>)
      \o <<result.content>>

\* "\n\n".join(sections) of the sections from the i-th result on
RECURSIVE JoinSections(_, _)
JoinSections(results, i) ==
    IF i > Len(results) THEN << >>
    ELSE Section(results[i]) \o JoinSections(results, i + 1)

\* variant: a final text without monitoring heading is an error of the generation
final_validation_raises(base_sections, final_analysis) ==
    IF /\ base_sections # << >>
       /\ "monitoring" \in SeqToSet(base_sections)
       /\ ~\E i \in 1..Len(final_analysis) : HasMonitoringLine(final_analysis[i])
    THEN [raised |-> TRUE,
          log |-> <<LogRecord("error", "Monitoring section not found in final analysis output", "")>>]
    ELSE [raised |-> FALSE, log |-> << >>]

\* generate_final_analysis, the final validation of the monitoring section
final_validation(base_sections, final_analysis) ==
    IF /\ base_sections # << >>
       /\ "monitoring" \in SeqToSet(base_sections)
       /\ ~\E i \in 1..Len(final_analysis) : HasMonitoringLine(final_analysis[i])
    THEN [raised |-> FALSE,
          log |-> <<LogRecord("error", "Monitoring section not found in final analysis output", "")>>]
    ELSE [raised |-> FALSE, log |-> << >>]

(***************************************************************************)
(* AnalysisResultsCollector.generate_final_analysis                        *)
(*   base_sections : the field of the collector                            *)
(***************************************************************************)
generate_final_analysis(base_sections, results) ==
    IF results = << >>
    THEN [result |-> Ok(<< >>),
          log |-> <<LogRecord("warning", "No results to generate final analysis", "")>>]
    ELSE LET final_analysis == JoinSections(results, 1)
             checked == final_validation(base_sections, final_analysis)
         IN  [result |-> IF checked.raised
                         THEN Raise("Monitoring section not found")
                         ELSE Ok(final_analysis),
              log |-> <<LogRecord("info", "Generated final analysis", "")>> \o checked.log]

\* variant: only the steps tracked as required count as tracked
validate_base_sections_present_required_only(base_sections, tracked_results) ==
    LET tracked_sections == {n \in DOMAIN tracked_results : tracked_results[n].required}
        missing_base_sections == SelectSeq(base_sections, LAMBDA s : s \notin tracked_sections)
    IN  [all_present |-> Len(missing_base_sections) = 0,
         missing_base_sections |-> missing_base_sections,
         log |-> << >>]

(***************************************************************************)
(* AnalysisResultsCollector.validate_base_sections_present                 *)
(*   base_sections, tracked_results : the fields base_sections and         *)
(*   step_results of the collector                                         *)
(***************************************************************************)
validate_base_sections_present(base_sections, tracked_results) ==
    IF base_sections = << >>
    THEN [all_present |-> TRUE, missing_base_sections |-> << >>,
          log |-> <<LogRecord("warning", "No base sections loaded for validation", "")>>]
    ELSE LET tracked_sections == DOMAIN tracked_results
             missing_base_sections == SelectSeq(base_sections,
                                                LAMBDA s : s \notin tracked_sections)
             all_present == Len(missing_base_sections) = 0
         IN  [all_present |-> all_present,
              missing_base_sections |-> missing_base_sections,
              log |-> <<IF all_present
                        THEN LogRecord("info", "All base sections are present", "")
                        ELSE LogRecord("warning", "Missing base sections", "")>>
                      \o (IF "monitoring" \in SeqToSet(base_sections)
                             /\ "monitoring" \notin tracked_sections
                          THEN <<LogRecord("error",
                                   "CRITICAL: Monitoring section is missing from results!", "")>>
                          ELSE << >>)]

(***************************************************************************)
(* Prompt files and their versions.                                        *)
(*                                                                         *)
(* A step of the processing order names a prompt file or none.  Of the     *)
(* content of a file the version extraction reads whether it is empty,     *)
(* whether its first line starts with "version=" and the text between     *)
(* that "=" and the next "=" or the end of the line.                       *)
(***************************************************************************)
NoFile == [specified |-> FALSE]
MissingFile == [specified |-> TRUE, readable |-> FALSE]
PromptFile(empty, header, raw) == [specified |-> TRUE, readable |-> TRUE, empty |-> empty, header |-> header, raw |-> raw]
EmptyPrompt == PromptFile(TRUE, FALSE, "")
PromptWithoutHeader == PromptFile(FALSE, FALSE, "")
HeaderTexts == {"", " ", "1", " 2 "}
PromptFiles == {NoFile, MissingFile, EmptyPrompt, PromptWithoutHeader} \cup {PromptFile(FALSE, TRUE, raw) : raw \in HeaderTexts}

\* str.strip on the texts of a header
Strip(text) ==
    IF text = " " THEN ""
    ELSE IF text = " 2 " THEN "2"
    ELSE text

\* variant: an empty version is returned as it is
extract_prompt_version_accepts_empty(prompt_content) ==
    IF prompt_content.empty THEN Raise("Prompt content is empty")
    ELSE IF prompt_content.header THEN Ok(Strip(prompt_content.raw))
    ELSE Raise("No version found in prompt")

\* AnalysisResultsCollector.extract_prompt_version
extract_prompt_version(prompt_content) ==
    IF prompt_content.empty THEN Raise("Prompt content is empty")
    ELSE IF prompt_content.header
    THEN LET version == Strip(prompt_content.raw)
         IN  IF version = ""
             THEN Raise("Invalid version format in prompt (line missing?)")
             ELSE Ok(version)
    ELSE Raise("No version found in prompt")

\* get_prompts_config_activity: the version of one step of the processing order
config_prompt_version(file) ==
    IF ~file.specified THEN "1"
    ELSE IF ~file.readable THEN "1"
    ELSE LET version == extract_prompt_version(file)
         IN  IF version.ok THEN version.value ELSE "1"

\* variant: a step whose prompt is at the default version is left out
get_prompts_config_activity_skips_default(processing_order, files, config) ==
    IF ~config.ok THEN Raise("Failed to get prompts configuration")
    ELSE Ok([processing_order |-> processing_order,
             prompt_versions |-> [s \in {t \in SeqToSet(processing_order) :
                                           config_prompt_version(files[t]) # "1"} |->
                                     config_prompt_version(files[s])]])

(***************************************************************************)
(* get_prompts_config_activity: the processing order of prompts.json and   *)
(* the version of the prompt of every step; config is the outcome of       *)
(* reading the configuration.                                              *)
(***************************************************************************)
get_prompts_config_activity(processing_order, files, config) ==
    IF ~config.ok THEN Raise("Failed to get prompts configuration")
    ELSE Ok([processing_order |-> processing_order,
             prompt_versions |-> [s \in SeqToSet(processing_order) |->
                                     config_prompt_version(files[s])]])

\* read_prompt_file_activity; FileManager.read_prompt_file returns None for a
\* file that does not exist or cannot be read
read_prompt_file_activity(file) ==
    IF ~file.specified \/ ~file.readable
    THEN Ok([status |-> "not_found", prompt_version |-> "1"])
    ELSE LET version == extract_prompt_version(file)
         IN  IF version.ok
             THEN Ok([status |-> "success", prompt_version |-> version.value])
             ELSE Raise("Failed to read prompt file")

(***************************************************************************)
(* State.                                                                  *)
(*   table    : the metadata store, the newest item of every repository    *)
(*   pc       : position of the workflow run: "idle" between runs,         *)
(*              "checked" after the decision, "analysed" after steps 3 to  *)
(*              7, "published" after the hub save of step 8                *)
(*   call     : the inputs of the run's decision call                      *)
(*   decision : the output of the run's decision call                      *)
(*   saved    : metadata_saved of the run                                  *)
(*   force    : the force flag of the request of the run                   *)
(*   result   : investigation_result while the run is past step 7, and     *)
(*              what run returned or raised once it ended                  *)
(*   results  : the stored analysis results, partition key -> newest item  *)
(*   history  : per prompt tuple, the content first and last saved under   *)
(*              it since its entry was last absent or expired              *)
(*   last     : the last prompt-cache operation and what it returned       *)
(*   collector: the base sections of the results collector and the         *)
(*              processing order and prompt versions of its run            *)
(*   combined : the last call of combine_results and its outcome           *)
(*   runs     : two investigations of one repository that run at the same  *)
(*              time: position, timestamp drawn for the record, outcome of *)
(*              the last prompt-cache check                                *)
(*   items    : the items of the metadata store of that repository, by     *)
(*              analysis_timestamp                                         *)
(*   clock    : the time in seconds                                        *)
(*   written  : the investigation whose put_item was the last one, and the *)
(*              timestamp of the item it put                               *)
(*   prompts  : the processing order and the prompt file of every step     *)
(*   loaded   : what get_prompts_config_activity returned or raised         *)
(*   read     : the last read_prompt_file_activity, its step and outcome    *)
(*   stage    : position of the run of the analysis steps: "collecting",   *)
(*              "retrieved", "validated", "combined", "finalized",         *)
(*              "failed"; "off" while no such run is modelled              *)
(*   tracked  : step_results of the collector, the step names in the       *)
(*              order of their track_step                                  *)
(*   ops      : the operations of the collectors of the run, in the order  *)
(*              of their calls                                             *)
(*   retrieved: results_map of retrieve_all_results_activity               *)
(*   document : the call of generate_final_analysis and what it returned   *)
(*   step_results : step_results of a collector used on its own, step name *)
(*              -> the tracked StepResult                                  *)
(*   validation : the last call of validate_base_sections_present of that  *)
(*              collector and what it returned                             *)
(***************************************************************************)
VARIABLES table, pc, call, decision, saved, force, result, results, history, last, collector, combined, runs, items, clock, written, prompts, loaded, read, stage, tracked, ops, retrieved, document, step_results, validation, plan, step_index, step_result_keys, calls, analysis

runVars == <<table, pc, call, decision, saved, force, result>>
cacheVars == <<results, history, last>>
combineVars == <<collector, combined>>
raceVars == <<runs, items, clock, written>>
promptVars == <<prompts, loaded, read>>
stepsVars == <<stage, tracked, ops, retrieved, document>>
validateVars == <<step_results, validation>>
analyzeVars == <<plan, step_index, step_result_keys, calls, analysis>>
vars == <<runVars, cacheVars, combineVars, raceVars, promptVars, stepsVars, validateVars, analyzeVars>>

\* the two investigations, and their state while they are not run
Investigations == {"first", "second"}
NoRuns == [r \in Investigations |-> [pc |-> "off", timestamp |-> 0, seen |-> None]]

Outcomes(V, E) == {Ok(v) : v \in V} \cup {Raise(e) : e \in E}
GitStates == {RepositoryState(c, b, d) : c \in Commits, b \in Branches, d \in BOOLEAN}
NoCall == [op |-> "none"]

Init ==
    /\ table = [r \in Repos |-> NoRecord]
    /\ pc = "idle"
    /\ call = NoCall
    /\ decision = NoCall
    /\ saved = "none"
    /\ force = FALSE
    /\ result = NoCall
    /\ results = NoItems
    /\ history = [t \in PromptTuples |-> None]
    /\ last = NoCall
    /\ collector = [base_sections |-> << >>, processing_order |-> << >>,
                    prompt_versions |-> << >>]
    /\ combined = NoCall
    /\ runs = NoRuns
    /\ items = NoItems
    /\ clock = 0
    /\ written = None
    /\ prompts = [processing_order |-> << >>, files |-> << >>]
    /\ loaded = NoCall
    /\ read = NoCall
    /\ stage = "off"
    /\ tracked = << >>
    /\ ops = << >>
    /\ retrieved = NoCall
    /\ document = NoCall
    /\ step_results = << >>
    /\ validation = NoCall
    /\ plan = NoCall
    /\ step_index = 0
    /\ step_result_keys = << >>
    /\ calls = << >>
    /\ analysis = NoCall

\* InvestigateSingleRepoWorkflow.run, step 2: the decision activity.
\* A step that is not reached because an earlier one raised has no outcome.
CheckCache(repo, pv, git, client, fault, request_force) ==
    LET input_params == [repo_name |-> repo, prompt_versions |-> pv] IN
    /\ pc = "idle"
    /\ force' = request_force
    /\ result' = NoCall
    /\ ~git.ok => client.ok
    /\ ~(git.ok /\ client.ok) => fault.ok
    /\ pc' = "checked"
    /\ call' = [op |-> "check", repo_name |-> repo, prompt_versions |-> pv,
                git |-> git, client |-> client, fault |-> fault,
                record |-> table[repo]]
    /\ decision' = check_if_repo_needs_investigation(input_params, git, client, fault, table)
    /\ saved' = "none"
    /\ UNCHANGED table
    /\ UNCHANGED <<cacheVars, combineVars, raceVars, promptVars, stepsVars, validateVars, analyzeVars>>

\* variant: every run is investigated
needs_investigation_always ==
    TRUE

\* InvestigateSingleRepoWorkflow.run: needs_investigation, the decision of the
\* activity unless the request forces the investigation
needs_investigation ==
    force \/ decision.needs_investigation

\* InvestigateSingleRepoResult: the fields of the value run returns that the
\* claims speak of
InvestigateSingleRepoResult(status, cached, reason, architecture_hub, metadata_saved) ==
    [status |-> status, cached |-> cached, reason |-> reason,
     architecture_hub |-> architecture_hub, metadata_saved |-> metadata_saved]

\* InvestigateSingleRepoWorkflow.run: cache_reason, the reason of the decision
\* unless the request forces the investigation
cache_reason ==
    IF force THEN Reason("Force flag enabled", "", "", "") ELSE decision.reason

\* InvestigateSingleRepoWorkflow.run: early return of a run that needs no investigation
SkipInvestigation ==
    /\ pc = "checked"
    /\ ~needs_investigation
    /\ pc' = "idle"
    /\ call' = NoCall
    /\ decision' = NoCall
    /\ saved' = "none"
    /\ force' = FALSE
    /\ result' = Ok(InvestigateSingleRepoResult("skipped", TRUE, cache_reason, None, None))
    /\ UNCHANGED table
    /\ UNCHANGED <<cacheVars, combineVars, raceVars, promptVars, stepsVars, validateVars, analyzeVars>>

\* InvestigateSingleRepoWorkflow.run, steps 3 to 7: every analysis step ran,
\* the results were combined and the final analysis was written.  Of the
\* decision the run keeps repo_name, prompt_versions, latest_commit,
\* branch_name and needs_investigation.
Investigate ==
    /\ pc = "checked"
    /\ needs_investigation
    /\ pc' = "analysed"
    /\ call' = [op |-> "investigate", repo_name |-> call.repo_name,
                prompt_versions |-> call.prompt_versions]
    /\ decision' = [needs_investigation |-> decision.needs_investigation,
                    latest_commit |-> decision.latest_commit,
                    branch_name |-> decision.branch_name]
    /\ result' = [status |-> "success", architecture_hub |-> None, metadata_saved |-> None]
    /\ UNCHANGED <<table, saved, force>>
    /\ UNCHANGED <<cacheVars, combineVars, raceVars, promptVars, stepsVars, validateVars, analyzeVars>>

\* the outcomes of the hub save: saved, skipped for want of content, failed
HubStatuses == {"success", "skipped", "failed"}

\* variant: a failed hub save is recorded and the run goes on
SaveToHub_continues_on_failure(hub_status) ==
    /\ pc = "analysed"
    /\ pc' = "published"
    /\ result' = [result EXCEPT !.architecture_hub = [status |-> hub_status]]
    /\ UNCHANGED <<call, decision, saved, force>>
    /\ UNCHANGED table
    /\ UNCHANGED <<cacheVars, combineVars, raceVars, promptVars, stepsVars, validateVars, analyzeVars>>

\* InvestigateSingleRepoWorkflow.run, step 8: the save to the architecture
\* hub; a failed save raises and ends the run
SaveToHub(hub_status) ==
    /\ pc = "analysed"
    /\ IF hub_status = "failed"
       THEN /\ pc' = "idle"
            /\ call' = NoCall
            /\ decision' = NoCall
            /\ saved' = "none"
            /\ force' = FALSE
            /\ result' = Raise("Architecture hub save failed")
       ELSE /\ pc' = "published"
            /\ result' = [result EXCEPT !.architecture_hub = [status |-> hub_status]]
            /\ UNCHANGED <<call, decision, saved, force>>
    /\ UNCHANGED table
    /\ UNCHANGED <<cacheVars, combineVars, raceVars, promptVars, stepsVars, validateVars, analyzeVars>>

\* variant: the metadata save is taken before the hub save
ReachedStep9_before_hub_save ==
    pc \in {"analysed", "published"}

\* InvestigateSingleRepoWorkflow.run: step 9 is reached when steps 3 to 8
\* returned without raising
ReachedStep9 ==
    pc = "published"

\* InvestigateSingleRepoWorkflow._save_to_dynamo, step 9 of run: the metadata
\* save with the commit and branch of the decision and the run's prompt versions
\* (prompt_versions or {}).  SaveMetadataInput rejects a missing commit.
SaveToDynamo(client, fault) ==
    LET pv == IF call.prompt_versions.given THEN call.prompt_versions ELSE Dict(<< >>)
        input_params == [repo_name |-> call.repo_name,
                         latest_commit |-> decision.latest_commit,
                         branch_name |-> decision.branch_name,
                         prompt_versions |-> pv]
        out == save_investigation_metadata(input_params, client, fault, table)
        metadata_saved == IF decision.latest_commit = "None"
                          THEN [status |-> "failed", timestamp |-> "None"]
                          ELSE [status |-> out.result.status,
                                timestamp |-> out.result.timestamp]
    IN  /\ ReachedStep9
        /\ needs_investigation
        /\ ~client.ok => fault.ok
        /\ IF decision.latest_commit = "None"
           THEN /\ client.ok /\ fault.ok
                /\ table' = table
                /\ saved' = "failed"
           ELSE /\ table' = out.table
                /\ saved' = out.result.status
        /\ result' = Ok(InvestigateSingleRepoResult(result.status, FALSE,
                                                    Reason("Full investigation completed", "", "", ""),
                                                    result.architecture_hub, metadata_saved))
        /\ force' = FALSE
        /\ pc' = "idle"
        /\ call' = NoCall
        /\ decision' = NoCall
        /\ UNCHANGED <<cacheVars, combineVars, raceVars, promptVars, stepsVars, validateVars, analyzeVars>>

\* InvestigateSingleRepoWorkflow.run, steps 3 to 7: an activity of the
\* investigation raises and the run ends without a metadata save
FailInvestigation ==
    /\ pc = "checked"
    /\ needs_investigation
    /\ pc' = "idle"
    /\ call' = NoCall
    /\ decision' = NoCall
    /\ saved' = "none"
    /\ force' = FALSE
    /\ result' = Raise("Activity failed")
    /\ UNCHANGED table
    /\ UNCHANGED <<cacheVars, combineVars, raceVars, promptVars, stepsVars, validateVars, analyzeVars>>

\* The store drops an item whose ttl_timestamp has passed.  A run reads the
\* table once (in the decision) and writes it once (in the save), without a
\* condition on its content, so an expiry during a run has the effect of an
\* expiry before or after it; it is taken between runs.
ExpireItem(repo) ==
    /\ pc = "idle"
    /\ table[repo].exists
    /\ table' = [table EXCEPT ![repo] = NoRecord]
    /\ UNCHANGED <<pc, call, decision, saved, force, result>>
    /\ UNCHANGED <<cacheVars, combineVars, raceVars, promptVars, stepsVars, validateVars, analyzeVars>>

Next ==
    \/ \E repo \in Repos, pv \in PromptVersionInputs,
          git \in Outcomes(GitStates, GitErrors),
          client \in Outcomes({"client"}, ClientErrors),
          fault \in Outcomes({"query"}, QueryErrors) :
          \E request_force \in BOOLEAN : CheckCache(repo, pv, git, client, fault, request_force)
    \/ SkipInvestigation
    \/ FailInvestigation
    \/ Investigate
    \/ \E hub_status \in HubStatuses : SaveToHub(hub_status)
    \/ \E client \in Outcomes({"client"}, ClientErrors),
          fault \in Outcomes({"put_item"}, QueryErrors) :
          SaveToDynamo(client, fault)
    \/ \E repo \in Repos : ExpireItem(repo)

Spec == Init /\ [][Next]_vars

(***************************************************************************)
(* The prompt result cache under any sequence of its operations.           *)
(***************************************************************************)
\* ttl_days of the save in analyze_with_claude_context
TtlDays == 90
StorageFaults == Outcomes({"storage"}, QueryErrors)
Live(t) ==
    /\ ResultPartition(KeyOf(t)) \in DOMAIN results
    /\ ~results[ResultPartition(KeyOf(t))].expired

\* InvestigationCache.save_prompt_result for the prompt tuple t
SavePromptResult(t, content, fault) ==
    LET out == save_prompt_result(results, t.repo_name, t.step_name, t.commit_sha,
                                  content, t.prompt_version, TtlDays, fault)
    IN  /\ results' = out.table
        /\ last' = [op |-> "save", tuple |-> t, content |-> content,
                    fault |-> fault, result |-> out.result]
        /\ history' =
              IF out.result.status = "success"
              THEN [history EXCEPT ![t] =
                      [first |-> IF history[t] = None THEN content ELSE history[t].first,
                       last |-> content]]
              ELSE history
        /\ UNCHANGED <<runVars, combineVars, raceVars, promptVars, stepsVars, validateVars, analyzeVars>>

\* InvestigationCache.check_prompt_needs_analysis for the prompt tuple t;
\* follows is the content of a successful save of t that immediately precedes
CheckPrompt(t, fault) ==
    /\ last' = [op |-> "check", tuple |-> t, fault |-> fault,
                follows |-> IF last.op = "save" /\ last.tuple = t
                                 /\ last.result.status = "success"
                              THEN last.content ELSE None,
                result |-> check_prompt_needs_analysis(results, t.repo_name, t.step_name,
                               t.commit_sha, t.prompt_version, fault)]
    /\ UNCHANGED <<results, history>>
    /\ UNCHANGED <<runVars, combineVars, raceVars, promptVars, stepsVars, validateVars, analyzeVars>>

\* the ttl_timestamp of the stored entry of t passes
PassTtl(t) ==
    /\ Live(t)
    /\ results' = [results EXCEPT ![ResultPartition(KeyOf(t))].expired = TRUE]
    /\ history' = [history EXCEPT ![t] = None]
    /\ last' = NoCall
    /\ UNCHANGED <<runVars, combineVars, raceVars, promptVars, stepsVars, validateVars, analyzeVars>>

\* the store drops the expired entry of t
DeleteExpired(t) ==
    LET p == ResultPartition(KeyOf(t)) IN
    /\ p \in DOMAIN results
    /\ results[p].expired
    /\ results' = [q \in DOMAIN results \ {p} |-> results[q]]
    /\ last' = NoCall
    /\ UNCHANGED history
    /\ UNCHANGED <<runVars, combineVars, raceVars, promptVars, stepsVars, validateVars, analyzeVars>>

CacheNext ==
    \/ \E t \in PromptTuples, content \in Contents, fault \in StorageFaults :
          SavePromptResult(t, content, fault)
    \/ \E t \in PromptTuples, fault \in StorageFaults : CheckPrompt(t, fault)
    \/ \E t \in PromptTuples : PassTtl(t)
    \/ \E t \in PromptTuples : DeleteExpired(t)

CacheSpec == Init /\ [][CacheNext]_vars

(***************************************************************************)
(* combine_results of a collector under every configuration and input.     *)
(***************************************************************************)
\* base_sections: no configuration, the base prompts, base prompts without monitoring
BaseSectionConfigs ==
    {<< >>, <<"hl_overview", "apis", "monitoring">>, <<"hl_overview", "apis">>}
NameOrders ==
    {o \in UNION {[1..n -> SectionNames] : n \in 0..Cardinality(SectionNames)} :
        \A i, j \in 1..Len(o) : i # j => o[i] # o[j]}
\* a step configuration; the step named optional carries "required": false
StepConfig(name, optional) ==
    IF name = optional
    THEN [name |-> name, description |-> "Description for " \o name, required |-> FALSE]
    ELSE [name |-> name, description |-> "Description for " \o name]
ProcessingOrders ==
    {[i \in 1..Len(o) |-> StepConfig(o[i], optional)] :
        o \in NameOrders, optional \in {"", "apis", "monitoring"}}
CombineVersionMaps ==
    {<< >>, [n \in {"hl_overview"} |-> "2"], [n \in SectionNames |-> "2"]}
Collectors ==
    [base_sections : BaseSectionConfigs, processing_order : ProcessingOrders,
     prompt_versions : CombineVersionMaps]
\* results_map: a step has no new result, an empty one or a content
ResultsMaps ==
    UNION {{[n \in S |-> IF n \in E THEN "" ELSE "New content for " \o n] : E \in SUBSET S} :
              S \in SUBSET SectionNames}
\* cached_results_map: a step has no cached result or one of version "1" or "2"
CachedResultsMaps ==
    UNION {{[n \in S |-> [content |-> "Cached content for " \o n,
                          version |-> IF n \in T THEN "2" ELSE "1",
                          timestamp |-> "2024-01-01T00:00:00Z"]] : T \in SUBSET S} :
              S \in SUBSET SectionNames}
\* track_step of the steps whose result was retrieved
TrackedSteps(results_map) ==
    [n \in DOMAIN results_map |-> [result_key |-> "key_" \o n, required |-> TRUE]]

CombineInit ==
    /\ table = [r \in Repos |-> NoRecord]
    /\ pc = "idle"
    /\ call = NoCall
    /\ decision = NoCall
    /\ saved = "none"
    /\ force = FALSE
    /\ result = NoCall
    /\ results = NoItems
    /\ history = [t \in PromptTuples |-> None]
    /\ last = NoCall
    /\ collector \in Collectors
    /\ combined = NoCall
    /\ runs = NoRuns
    /\ items = NoItems
    /\ clock = 0
    /\ written = None
    /\ prompts = [processing_order |-> << >>, files |-> << >>]
    /\ loaded = NoCall
    /\ read = NoCall
    /\ stage = "off"
    /\ tracked = << >>
    /\ ops = << >>
    /\ retrieved = NoCall
    /\ document = NoCall
    /\ step_results = << >>
    /\ validation = NoCall
    /\ plan = NoCall
    /\ step_index = 0
    /\ step_result_keys = << >>
    /\ calls = << >>
    /\ analysis = NoCall

\* AnalysisResultsCollector.combine_results, called once per run of the steps
CombineResults(results_map, cached_results_map) ==
    /\ combined = NoCall
    /\ combined' = [op |-> "combine", results_map |-> results_map,
                    cached_results_map |-> cached_results_map,
                    out |-> combine_results(collector.base_sections,
                                            TrackedSteps(results_map), results_map,
                                            collector.processing_order, cached_results_map,
                                            collector.prompt_versions)]
    /\ UNCHANGED collector
    /\ UNCHANGED <<runVars, cacheVars, raceVars, promptVars, stepsVars, validateVars, analyzeVars>>

CombineNext ==
    \E results_map \in ResultsMaps, cached_results_map \in CachedResultsMaps :
        CombineResults(results_map, cached_results_map)

CombineSpec == CombineInit /\ [][CombineNext]_vars

(***************************************************************************)
(* Vocabulary of the properties.  All of them speak about a state in which *)
(* the decision activity has returned (pc = "checked").                    *)
(***************************************************************************)
Checked == pc = "checked"
\* the record was read: git state, store client and table query all succeeded
ReadOk == call.git.ok /\ call.client.ok /\ call.fault.ok
SameBranch == call.record.branch_name = call.git.value.branch_name
SameCommit == call.record.latest_commit = call.git.value.commit_sha
\* a record was found and neither branch nor commit moved
Unmoved == ReadOk /\ call.record.exists /\ SameBranch /\ SameCommit
Current == call.prompt_versions.versions
StoredVersions ==
    IF call.record.prompt_metadata.present
    THEN call.record.prompt_metadata.versions ELSE << >>
StoredCount == call.record.prompt_metadata.count
Mismatching == {s \in DOMAIN Current : Get(StoredVersions, s, "1") # Current[s]}
Removed == DOMAIN StoredVersions \ DOMAIN Current
TextOf(d) == d.reason.text

(***************************************************************************)
(* C1: the decision is needs_investigation = FALSE only when the record    *)
(* was read successfully, exists, has the branch and the commit of the     *)
(* current repository state and, when prompt versions are supplied, the    *)
(* prompt-version check reports no change; in every other case it is TRUE. *)
(***************************************************************************)
C1_SkipExactlyWhenNothingChanged ==
    Checked =>
      (decision.needs_investigation = FALSE
         <=> /\ Unmoved
             /\ call.prompt_versions.given =>
                  ~check_prompt_version_changes(call.prompt_versions, call.record).changed)

C1_Witness ==
    /\ Checked /\ Unmoved
    /\ call.prompt_versions.given
    /\ DOMAIN StoredVersions # {}
    /\ \E s \in DOMAIN Current : Current[s] # "1"
    /\ ~decision.needs_investigation

(***************************************************************************)
(* C2: when several staleness conditions hold at once the reason is that   *)
(* of the first one in the order: storage read failure, no record, branch  *)
(* differs, commit differs, prompt-version change.                         *)
(***************************************************************************)
C2_FirstReasonWins ==
    (Checked /\ call.git.ok /\ call.client.ok) =>
      IF ~call.fault.ok
        THEN decision.reason = ErrorReason(call.fault.error)
      ELSE IF ~call.record.exists
        THEN TextOf(decision) = "No previous investigation found"
      ELSE IF ~SameBranch
        THEN decision.reason = Reason("Branch changed from {old} to {new}", "",
                                      call.record.branch_name,
                                      call.git.value.branch_name)
      ELSE IF ~SameCommit
        THEN decision.reason = Reason("New commits detected (was: {old}, now: {new})", "",
                                      call.record.latest_commit,
                                      call.git.value.commit_sha)
      ELSE check_prompt_version_changes(call.prompt_versions, call.record).changed
             => decision.reason =
                  check_prompt_version_changes(call.prompt_versions, call.record).reason

\* branch, commit and prompt versions all differ from the record
C2_Witness ==
    /\ Checked /\ ReadOk /\ call.record.exists
    /\ ~SameBranch /\ ~SameCommit
    /\ check_prompt_version_changes(call.prompt_versions, call.record).changed
    /\ TextOf(decision) = "Branch changed from {old} to {new}"

(***************************************************************************)
(* C3: when reading the last-investigation record fails (the store client  *)
(* cannot be obtained or the table query raises) the activity returns      *)
(* needs_investigation = TRUE with a reason that carries the error text;   *)
(* a storage failure never results in a skip.                              *)
(***************************************************************************)
C3_StorageFailureInvestigates ==
    (Checked /\ call.git.ok /\ ~(call.client.ok /\ call.fault.ok)) =>
      /\ decision.needs_investigation
      /\ decision.reason.error =
           (IF call.client.ok THEN call.fault.error ELSE call.client.error)
      /\ decision.reason.error \in ErrorTexts

\* the query fails although the stored record equals the current state
C3_Witness ==
    /\ Checked /\ call.git.ok /\ call.client.ok /\ ~call.fault.ok
    /\ call.record.exists /\ SameBranch /\ SameCommit
    /\ decision.needs_investigation

(***************************************************************************)
(* C4: two decision calls that differ only in has_uncommitted_changes have *)
(* the same outcome.                                                       *)
(***************************************************************************)
Toggled(git) ==
    Ok([git.value EXCEPT !.has_uncommitted_changes = ~git.value.has_uncommitted_changes])

C4_DirtyFlagIrrelevant ==
    (Checked /\ call.git.ok) =>
      decision = check_if_repo_needs_investigation(
                     [repo_name |-> call.repo_name,
                      prompt_versions |-> call.prompt_versions],
                     Toggled(call.git), call.client, call.fault,
                     [r \in Repos |-> IF r = call.repo_name THEN call.record ELSE table[r]])

\* a dirty working copy is skipped
C4_Witness ==
    /\ Checked /\ Unmoved
    /\ call.git.value.has_uncommitted_changes
    /\ ~decision.needs_investigation

(***************************************************************************)
(* C5: when no investigation record exists for the repository the decision *)
(* is needs_investigation = TRUE with reason "No previous investigation    *)
(* found" and an empty last_investigation.                                 *)
(***************************************************************************)
C5_NoRecordInvestigates ==
    (Checked /\ ReadOk /\ ~call.record.exists) =>
      /\ decision.needs_investigation
      /\ decision.reason = Reason("No previous investigation found", "", "", "")
      /\ decision.last_investigation = NoRecord

\* no record is found by a call that supplies prompt versions
C5_Witness ==
    /\ Checked /\ ReadOk /\ ~call.record.exists
    /\ call.prompt_versions.given
    /\ decision.needs_investigation
    /\ TextOf(decision) = "No previous investigation found"

(***************************************************************************)
(* C6: when the stored record has the commit and the branch of the current *)
(* state and no prompt-version map is given, the decision is               *)
(* needs_investigation = FALSE, whatever prompt metadata the record holds. *)
(***************************************************************************)
C6_NoVersionMapSkips ==
    (Checked /\ Unmoved /\ ~call.prompt_versions.given) =>
      /\ ~decision.needs_investigation
      /\ decision.reason = Reason("No changes since last investigation", "", "", "")

\* the record holds versions other than the default one
C6_Witness ==
    /\ Checked /\ Unmoved /\ ~call.prompt_versions.given
    /\ \E s \in DOMAIN StoredVersions : StoredVersions[s] # "1"
    /\ ~decision.needs_investigation

(***************************************************************************)
(* C7: with non-empty stored versions, whenever the stored prompt count    *)
(* differs from the number of current prompts the reason is the            *)
(* count-mismatch reason, even if individual step versions differ as well. *)
(***************************************************************************)
C7_CountMismatchFirst ==
    (Checked /\ Unmoved /\ call.prompt_versions.given
       /\ DOMAIN StoredVersions # {}
       /\ StoredCount # Cardinality(DOMAIN Current)) =>
      /\ decision.needs_investigation
      /\ decision.reason = Reason("Prompt count changed: {old} -> {new}", "",
                                  ToString(StoredCount),
                                  ToString(Cardinality(DOMAIN Current)))

\* the count differs and a step that is in both maps changed its version
C7_Witness ==
    /\ Checked /\ Unmoved /\ call.prompt_versions.given
    /\ DOMAIN StoredVersions # {}
    /\ StoredCount # Cardinality(DOMAIN Current)
    /\ \E s \in DOMAIN Current \cap DOMAIN StoredVersions : StoredVersions[s] # Current[s]
    /\ TextOf(decision) = "Prompt count changed: {old} -> {new}"

(***************************************************************************)
(* C8: when the stored record has no prompt versions (metadata absent or   *)
(* versions empty) the prompt-version check reports a change if and only   *)
(* if some current version differs from "1"; the number of current prompts *)
(* does not matter.                                                        *)
(***************************************************************************)
C8_UntrackedRecordDefaultVersions ==
    (Checked /\ Unmoved /\ call.prompt_versions.given /\ DOMAIN StoredVersions = {}) =>
      /\ decision.needs_investigation <=> \E s \in DOMAIN Current : Current[s] # "1"
      /\ decision.needs_investigation =>
           /\ TextOf(decision) = "{step} updated to v{new} (no previous version tracking)"
           /\ decision.reason.step \in DOMAIN Current
           /\ decision.reason.new = Current[decision.reason.step]
           /\ decision.reason.new # "1"

\* several current prompts, all at version "1", against a record without versions
C8_Witness ==
    /\ Checked /\ Unmoved /\ call.prompt_versions.given
    /\ DOMAIN StoredVersions = {}
    /\ Cardinality(DOMAIN Current) >= 2
    /\ \A s \in DOMAIN Current : Current[s] = "1"
    /\ ~decision.needs_investigation

(***************************************************************************)
(* C9 as stated: with non-empty stored versions and a stored count equal   *)
(* to the number of current prompts, the first current step whose version  *)
(* differs from the stored one ("1" for a step absent from the record) is  *)
(* reported as "<step> version changed: v<old> -> v<new>", and if no step  *)
(* mismatches the check reports no change.                                 *)
(***************************************************************************)
C9_Original ==
    (Checked /\ Unmoved /\ call.prompt_versions.given
       /\ DOMAIN StoredVersions # {}
       /\ StoredCount = Cardinality(DOMAIN Current)) =>
      IF Mismatching # {}
      THEN /\ decision.needs_investigation
           /\ decision.reason =
                Reason("{step} version changed: v{old} -> v{new}",
                       FirstStep(Mismatching),
                       Get(StoredVersions, FirstStep(Mismatching), "1"),
                       Current[FirstStep(Mismatching)])
      ELSE ~decision.needs_investigation

(***************************************************************************)
(* C9 as amended: as above, but when no step mismatches the check reports  *)
(* no change only if every stored step is still among the current prompts; *)
(* otherwise it reports the first stored step that was removed.            *)
(***************************************************************************)
C9_VersionComparison ==
    (Checked /\ Unmoved /\ call.prompt_versions.given
       /\ DOMAIN StoredVersions # {}
       /\ StoredCount = Cardinality(DOMAIN Current)) =>
      IF Mismatching # {}
      THEN /\ decision.needs_investigation
           /\ decision.reason =
                Reason("{step} version changed: v{old} -> v{new}",
                       FirstStep(Mismatching),
                       Get(StoredVersions, FirstStep(Mismatching), "1"),
                       Current[FirstStep(Mismatching)])
      ELSE IF Removed = {}
      THEN ~decision.needs_investigation
      ELSE /\ decision.needs_investigation
           /\ decision.reason.step = FirstStep(Removed)
           /\ TextOf(decision) = "{step} removed"

\* equal counts; the mismatching step is absent from the record and is compared with "1"
C9_Witness ==
    /\ Checked /\ Unmoved /\ call.prompt_versions.given
    /\ DOMAIN StoredVersions # {}
    /\ StoredCount = Cardinality(DOMAIN Current)
    /\ Mismatching # {}
    /\ FirstStep(Mismatching) \notin DOMAIN StoredVersions
    /\ decision.reason.old = "1"
    /\ TextOf(decision) = "{step} version changed: v{old} -> v{new}"

(***************************************************************************)
(* C10: if a prompt of the record's stored versions is no longer among the *)
(* current prompts (commit and branch unchanged), the decision is          *)
(* needs_investigation = TRUE.                                             *)
(***************************************************************************)
C10_RemovedPromptInvestigates ==
    (Checked /\ Unmoved /\ call.prompt_versions.given /\ Removed # {}) =>
      decision.needs_investigation

\* a prompt was replaced by another one: equal counts and no version mismatch
C10_Witness ==
    /\ Checked /\ Unmoved /\ call.prompt_versions.given
    /\ Removed # {}
    /\ StoredCount = Cardinality(DOMAIN Current)
    /\ Mismatching = {}
    /\ decision.needs_investigation


(***************************************************************************)
(* Two investigations of the same repository on different commits that run *)
(* at the same time.  Each one checks the prompt cache for its step,       *)
(* analyses and saves the result on a miss, then draws the timestamp of    *)
(* its investigation record and puts the record; the calls of the two      *)
(* interleave in every order and the clock advances at any moment.  An     *)
(* investigation that is done can be run again.                            *)
(***************************************************************************)
MaxClock == 2
RaceRepo == "test-repo"
RaceStep == "hl_overview"
RaceVersion == "1"
RaceCommit(r) == IF r = "first" THEN "abc123def456" ELSE "def456789012"
RaceBranch(r) == IF r = "first" THEN "main" ELSE "develop"
RaceContent(r) == [text |-> "Analysis of " \o RaceCommit(r), size |-> 16]
RaceVersions == [s \in {RaceStep} |-> RaceVersion]
\* the item an investigation puts, without its key
RaceRecord(r) == InvestigationMetadata(RaceCommit(r), RaceBranch(r), PromptMetadata(RaceVersions))

\* DynamoDBClient.get_latest_investigation: the item of the greatest
\* analysis_timestamp (ScanIndexForward=False, Limit=1)
LatestItem(its) ==
    IF DOMAIN its = {} THEN NoRecord
    ELSE its[CHOOSE t \in DOMAIN its : \A u \in DOMAIN its : u <= t]

RaceInit ==
    /\ table = [r \in Repos |-> NoRecord]
    /\ pc = "idle"
    /\ call = NoCall
    /\ decision = NoCall
    /\ saved = "none"
    /\ force = FALSE
    /\ result = NoCall
    /\ results = NoItems
    /\ history = [t \in PromptTuples |-> None]
    /\ last = NoCall
    /\ collector = [base_sections |-> << >>, processing_order |-> << >>, prompt_versions |-> << >>]
    /\ combined = NoCall
    /\ runs = [r \in Investigations |-> [pc |-> "check", timestamp |-> 0, seen |-> None]]
    /\ items = NoItems
    /\ clock = 0
    /\ written = None
    /\ prompts = [processing_order |-> << >>, files |-> << >>]
    /\ loaded = NoCall
    /\ read = NoCall
    /\ stage = "off"
    /\ tracked = << >>
    /\ ops = << >>
    /\ retrieved = NoCall
    /\ document = NoCall
    /\ step_results = << >>
    /\ validation = NoCall
    /\ plan = NoCall
    /\ step_index = 0
    /\ step_result_keys = << >>
    /\ calls = << >>
    /\ analysis = NoCall

\* analyze_with_claude_context: the prompt-cache check of the investigation r
RaceCheck(r, fault) ==
    LET out == check_prompt_needs_analysis(results, RaceRepo, RaceStep, RaceCommit(r),
                                           RaceVersion, fault)
    IN  /\ runs[r].pc = "check"
        /\ runs' = [runs EXCEPT ![r].pc = IF out.value.needs_analysis
                                          THEN "analyse" ELSE "stamp",
                                ![r].seen = out.value.cached_result]
        /\ UNCHANGED <<results, items, clock, written>>
        /\ UNCHANGED <<runVars, history, last, combineVars, promptVars, stepsVars, validateVars, analyzeVars>>

\* analyze_with_claude_context: the analysis of r and the save of its result
RaceSave(r, fault) ==
    LET out == save_prompt_result(results, RaceRepo, RaceStep, RaceCommit(r),
                                  RaceContent(r), RaceVersion, TtlDays, fault)
    IN  /\ runs[r].pc = "analyse"
        /\ results' = out.table
        /\ runs' = [runs EXCEPT ![r].pc = "stamp"]
        /\ UNCHANGED <<items, clock, written>>
        /\ UNCHANGED <<runVars, history, last, combineVars, promptVars, stepsVars, validateVars, analyzeVars>>

\* DynamoDBClient.save_investigation_metadata: current_timestamp is read
RaceStamp(r) ==
    /\ runs[r].pc = "stamp"
    /\ runs' = [runs EXCEPT ![r].pc = "put", ![r].timestamp = clock]
    /\ UNCHANGED <<items, clock, written>>
    /\ UNCHANGED <<runVars, cacheVars, combineVars, promptVars, stepsVars, validateVars, analyzeVars>>

\* DynamoDBClient.save_investigation_metadata: put_item of the item, without
\* a condition, under the key (repository_name, analysis_timestamp)
RacePut(r) ==
    /\ runs[r].pc = "put"
    /\ items' = PutItem(items, runs[r].timestamp, RaceRecord(r))
    /\ written' = [given |-> TRUE, run |-> r, timestamp |-> runs[r].timestamp]
    /\ runs' = [runs EXCEPT ![r].pc = "done"]
    /\ UNCHANGED clock
    /\ UNCHANGED <<runVars, cacheVars, combineVars, promptVars, stepsVars, validateVars, analyzeVars>>

\* the investigation r is requested again
RaceRestart(r) ==
    /\ runs[r].pc = "done"
    /\ runs' = [runs EXCEPT ![r].pc = "check", ![r].seen = None]
    /\ UNCHANGED <<items, clock, written>>
    /\ UNCHANGED <<runVars, cacheVars, combineVars, promptVars, stepsVars, validateVars, analyzeVars>>

\* a second passes
Tick ==
    /\ clock < MaxClock
    /\ clock' = clock + 1
    /\ UNCHANGED <<runs, items, written>>
    /\ UNCHANGED <<runVars, cacheVars, combineVars, promptVars, stepsVars, validateVars, analyzeVars>>

RaceNext ==
    \/ \E r \in Investigations, fault \in StorageFaults : RaceCheck(r, fault)
    \/ \E r \in Investigations, fault \in StorageFaults : RaceSave(r, fault)
    \/ \E r \in Investigations : RaceStamp(r)
    \/ \E r \in Investigations : RacePut(r)
    \/ \E r \in Investigations : RaceRestart(r)
    \/ Tick

RaceSpec == RaceInit /\ [][RaceNext]_vars

(***************************************************************************)
(* Runs of the workflow whose prompt versions come from the prompt files:  *)
(* step 1.5 loads the processing order and the versions, step 2 decides    *)
(* with them, step 5 reads the prompt of every step again for the key of   *)
(* its cached result, step 9 stores them.                                  *)
(***************************************************************************)
\* the processing orders: the first steps of the configuration
PromptOrders == {SubSeq(StepOrder, 1, n) : n \in 0..NumSteps}
PromptConfigs ==
    UNION {[processing_order : {o}, files : [SeqToSet(o) -> PromptFiles]] : o \in PromptOrders}
\* the repository state of these runs: one branch, clean
PromptGitStates == {Ok(RepositoryState(c, "main", FALSE)) : c \in Commits}

PromptsInit ==
    /\ table = [r \in Repos |-> NoRecord]
    /\ pc = "idle"
    /\ call = NoCall
    /\ decision = NoCall
    /\ saved = "none"
    /\ force = FALSE
    /\ result = NoCall
    /\ results = NoItems
    /\ history = [t \in PromptTuples |-> None]
    /\ last = NoCall
    /\ collector = [base_sections |-> << >>, processing_order |-> << >>, prompt_versions |-> << >>]
    /\ combined = NoCall
    /\ runs = NoRuns
    /\ items = NoItems
    /\ clock = 0
    /\ written = None
    /\ prompts \in PromptConfigs
    /\ loaded = NoCall
    /\ read = NoCall
    /\ stage = "off"
    /\ tracked = << >>
    /\ ops = << >>
    /\ retrieved = NoCall
    /\ document = NoCall
    /\ step_results = << >>
    /\ validation = NoCall
    /\ plan = NoCall
    /\ step_index = 0
    /\ step_result_keys = << >>
    /\ calls = << >>
    /\ analysis = NoCall

\* InvestigateSingleRepoWorkflow.run, step 1.5: _get_prompts_config
LoadPrompts(config) ==
    /\ pc = "idle"
    /\ loaded' = get_prompts_config_activity(prompts.processing_order, prompts.files, config)
    /\ read' = NoCall
    /\ UNCHANGED prompts
    /\ UNCHANGED <<runVars, cacheVars, combineVars, raceVars, stepsVars, validateVars, analyzeVars>>

\* InvestigateSingleRepoWorkflow.run, step 2 with the versions of step 1.5
CheckCacheLoaded(repo, git) ==
    /\ loaded # NoCall
    /\ loaded.ok
    /\ CheckCache(repo, Dict(loaded.value.prompt_versions), git, Ok("client"), Ok("query"), FALSE)

\* _process_analysis_steps: read_prompt_file_activity of one step and the
\* key of its cached result (PromptCacheKey of analyze_with_claude_context)
ReadPrompt(step) ==
    /\ pc = "checked"
    /\ needs_investigation
    /\ step \in SeqToSet(prompts.processing_order)
    /\ LET out == read_prompt_file_activity(prompts.files[step])
           found == out.ok /\ out.value.status = "success"
       IN  read' = [op |-> "read", step |-> step, out |-> out,
                    cache_key |-> IF found
                                  THEN to_storage_key(call.repo_name, step,
                                                      decision.latest_commit,
                                                      out.value.prompt_version)
                                  ELSE "None"]
    /\ UNCHANGED <<prompts, loaded>>
    /\ UNCHANGED <<runVars, cacheVars, combineVars, raceVars, stepsVars, validateVars, analyzeVars>>

\* _process_analysis_steps: the prompt of every step was read
AllPromptsRead ==
    \A step \in SeqToSet(prompts.processing_order) :
        LET out == read_prompt_file_activity(prompts.files[step])
        IN  out.ok /\ out.value.status = "success"

\* steps 3 to 7 of a run whose prompts were all read
InvestigateLoaded ==
    /\ AllPromptsRead
    /\ Investigate

PromptsNext ==
    \/ \E config \in Outcomes({"prompts.json"}, {"FileNotFoundError"}) : LoadPrompts(config)
    \/ \E repo \in Repos, git \in PromptGitStates : CheckCacheLoaded(repo, git)
    \/ \E step \in Steps : ReadPrompt(step)
    \/ SkipInvestigation
    \/ FailInvestigation
    \/ InvestigateLoaded
    \/ \E hub_status \in HubStatuses : SaveToHub(hub_status)
    \/ SaveToDynamo(Ok("client"), Ok("put_item"))

PromptsSpec == PromptsInit /\ [][PromptsNext]_vars

(***************************************************************************)
(* The run of the analysis steps: _process_analysis_steps tracks the steps *)
(* of the processing order one after the other in its collector, retrieves *)
(* the results, validates the base sections and combines the results; run  *)
(* then generates the final analysis with a second collector.              *)
(***************************************************************************)
\* a step configuration without description
PlainStep(name) == [name |-> name]
\* the processing orders of these runs: the step apis has no description
StepsOrders ==
    {[i \in 1..Len(o) |-> IF o[i] = "apis" THEN PlainStep(o[i]) ELSE StepConfig(o[i], "")] :
        o \in NameOrders}
StepsCollectors ==
    [base_sections : BaseSectionConfigs, processing_order : StepsOrders,
     prompt_versions : {<< >>}]
\* the content retrieved for a step: empty, an analysis, an analysis that
\* mentions monitoring
StepContents == {"", "Analysis", MonitoringMention}
RetrieveOutcomes ==
    Outcomes(UNION {[S -> StepContents] : S \in SUBSET SectionNames},
             {"Failed to retrieve analysis results"})
\* step_results of the collector after the track_step of the names
StepResults(names) ==
    [n \in SeqToSet(names) |-> [result_key |-> "key_" \o n, required |-> TRUE]]

\* variant: after the combination the run validates again
next_stage_validating_again(position) ==
    CASE position = "collecting" -> "retrieved"
      [] position = "retrieved" -> "validated"
      [] position = "validated" -> "retrieved"
      [] position = "combined" -> "finalized"

\* the statements of _process_analysis_steps after its loop and of step 6
\* of run, in the order of the code
next_stage(position) ==
    CASE position = "collecting" -> "retrieved"
      [] position = "retrieved" -> "validated"
      [] position = "validated" -> "combined"
      [] position = "combined" -> "finalized"

StepsInit ==
    /\ table = [r \in Repos |-> NoRecord]
    /\ pc = "idle"
    /\ call = NoCall
    /\ decision = NoCall
    /\ saved = "none"
    /\ force = FALSE
    /\ result = NoCall
    /\ results = NoItems
    /\ history = [t \in PromptTuples |-> None]
    /\ last = NoCall
    /\ collector \in StepsCollectors
    /\ combined = NoCall
    /\ runs = NoRuns
    /\ items = NoItems
    /\ clock = 0
    /\ written = None
    /\ prompts = [processing_order |-> << >>, files |-> << >>]
    /\ loaded = NoCall
    /\ read = NoCall
    /\ stage = "collecting"
    /\ tracked = << >>
    /\ ops = << >>
    /\ retrieved = NoCall
    /\ document = NoCall
    /\ step_results = << >>
    /\ validation = NoCall
    /\ plan = NoCall
    /\ step_index = 0
    /\ step_result_keys = << >>
    /\ calls = << >>
    /\ analysis = NoCall

\* _process_analysis_steps, one pass of the loop over processing_order: the
\* activities of the step and track_step, or an activity that raises
TrackStep(outcome) ==
    /\ stage = "collecting"
    /\ Len(tracked) < Len(collector.processing_order)
    /\ IF outcome.ok
       THEN /\ tracked' = Append(tracked, collector.processing_order[Len(tracked) + 1].name)
            /\ ops' = Append(ops, "track_step")
            /\ stage' = "collecting"
       ELSE /\ stage' = "failed"
            /\ UNCHANGED <<tracked, ops>>
    /\ UNCHANGED <<retrieved, document, collector, combined>>
    /\ UNCHANGED <<runVars, cacheVars, raceVars, promptVars, validateVars, analyzeVars>>

\* _process_analysis_steps after the loop: retrieve_all_results_activity
RetrieveResults(retrieve) ==
    /\ stage = "collecting"
    /\ Len(tracked) = Len(collector.processing_order)
    /\ retrieve.ok => DOMAIN retrieve.value \subseteq SeqToSet(tracked)
    /\ IF retrieve.ok
       THEN /\ retrieved' = retrieve.value
            /\ stage' = next_stage(stage)
       ELSE /\ stage' = "failed"
            /\ UNCHANGED retrieved
    /\ UNCHANGED <<tracked, ops, document, collector, combined>>
    /\ UNCHANGED <<runVars, cacheVars, raceVars, promptVars, validateVars, analyzeVars>>

\* _process_analysis_steps: validate_base_sections_present, whose outcome is
\* logged only
ValidateBaseSections ==
    /\ stage = "retrieved"
    /\ ops' = Append(ops, "validate_base_sections_present")
    /\ stage' = next_stage(stage)
    /\ UNCHANGED <<tracked, retrieved, document, collector, combined>>
    /\ UNCHANGED <<runVars, cacheVars, raceVars, promptVars, validateVars, analyzeVars>>

\* _process_analysis_steps: combine_results(results_map, processing_order)
CombineRetrieved ==
    LET out == combine_results(collector.base_sections, StepResults(tracked), retrieved,
                               collector.processing_order, << >>, << >>)
    IN  /\ stage = "validated"
        /\ combined' = [op |-> "combine", results_map |-> retrieved,
                        cached_results_map |-> << >>, out |-> out]
        /\ ops' = Append(ops, "combine_results")
        /\ stage' = IF out.result.ok THEN next_stage(stage) ELSE "failed"
        /\ UNCHANGED <<tracked, retrieved, document, collector>>
        /\ UNCHANGED <<runVars, cacheVars, raceVars, promptVars, validateVars, analyzeVars>>

\* run, step 6: generate_final_analysis of a second collector, whose base
\* sections are read from the same file once more (the file's or none)
GenerateFinalAnalysis(base_sections) ==
    /\ stage = "combined"
    /\ collector.base_sections # << >> => base_sections \in {<< >>, collector.base_sections}
    /\ document' = [op |-> "generate_final_analysis", base_sections |-> base_sections,
                    results |-> combined.out.result.value,
                    out |-> generate_final_analysis(base_sections, combined.out.result.value)]
    /\ ops' = Append(ops, "generate_final_analysis")
    /\ stage' = IF document'.out.result.ok THEN next_stage(stage) ELSE "failed"
    /\ UNCHANGED <<tracked, retrieved, collector, combined>>
    /\ UNCHANGED <<runVars, cacheVars, raceVars, promptVars, validateVars, analyzeVars>>

\* the next run of the steps: _process_analysis_steps creates its collector
NextRun ==
    /\ stage \in {"finalized", "failed"}
    /\ stage' = "collecting"
    /\ tracked' = << >>
    /\ ops' = << >>
    /\ retrieved' = NoCall
    /\ document' = NoCall
    /\ combined' = NoCall
    /\ UNCHANGED collector
    /\ UNCHANGED <<runVars, cacheVars, raceVars, promptVars, validateVars, analyzeVars>>

StepsNext ==
    \/ \E outcome \in Outcomes({"result_key"}, {"Activity failed"}) : TrackStep(outcome)
    \/ \E retrieve \in RetrieveOutcomes : RetrieveResults(retrieve)
    \/ ValidateBaseSections
    \/ CombineRetrieved
    \/ \E base_sections \in BaseSectionConfigs : GenerateFinalAnalysis(base_sections)
    \/ NextRun

StepsSpec == StepsInit /\ [][StepsNext]_vars

(***************************************************************************)
(* A collector used on its own: steps are tracked in any order, with any   *)
(* required flag, and the base sections are validated at any time.         *)
(***************************************************************************)
\* the StepResult that track_step stores
StepResult(name, required) ==
    [name |-> name, result_key |-> "key_" \o name, required |-> required]

ValidateInit ==
    /\ table = [r \in Repos |-> NoRecord]
    /\ pc = "idle"
    /\ call = NoCall
    /\ decision = NoCall
    /\ saved = "none"
    /\ force = FALSE
    /\ result = NoCall
    /\ results = NoItems
    /\ history = [t \in PromptTuples |-> None]
    /\ last = NoCall
    /\ collector \in [base_sections : BaseSectionConfigs, processing_order : {<< >>},
                      prompt_versions : {<< >>}]
    /\ combined = NoCall
    /\ runs = NoRuns
    /\ items = NoItems
    /\ clock = 0
    /\ written = None
    /\ prompts = [processing_order |-> << >>, files |-> << >>]
    /\ loaded = NoCall
    /\ read = NoCall
    /\ stage = "off"
    /\ tracked = << >>
    /\ ops = << >>
    /\ retrieved = NoCall
    /\ document = NoCall
    /\ step_results = << >>
    /\ validation = NoCall
    /\ plan = NoCall
    /\ step_index = 0
    /\ step_result_keys = << >>
    /\ calls = << >>
    /\ analysis = NoCall

\* AnalysisResultsCollector.track_step
TrackAnyStep(step_name, required) ==
    /\ step_results' = [n \in DOMAIN step_results \cup {step_name} |->
                           IF n = step_name THEN StepResult(step_name, required)
                           ELSE step_results[n]]
    /\ UNCHANGED validation
    /\ UNCHANGED <<runVars, cacheVars, combineVars, raceVars, promptVars, stepsVars, analyzeVars>>

\* AnalysisResultsCollector.validate_base_sections_present
ValidatePresent ==
    /\ validation' = [op |-> "validate", step_results |-> step_results,
                      out |-> validate_base_sections_present(collector.base_sections,
                                                             step_results)]
    /\ UNCHANGED step_results
    /\ UNCHANGED <<runVars, cacheVars, combineVars, raceVars, promptVars, stepsVars, analyzeVars>>

ValidateNext ==
    \/ \E step_name \in SectionNames, required \in BOOLEAN : TrackAnyStep(step_name, required)
    \/ ValidatePresent

ValidateSpec == ValidateInit /\ [][ValidateNext]_vars

(***************************************************************************)
(* The investigation record on its way through the store.  Here the table  *)
(* holds the items as DynamoDBClient writes them: the analysis data, with  *)
(* the prompt metadata in it, is one attribute of the item, stored as a    *)
(* JSON string and parsed when the item is read.  The decision reads the   *)
(* prompt metadata of the record it is given.                              *)
(***************************************************************************)
\* json.dumps and json.loads of a dictionary
json_dumps(d) == [json |-> d]
json_loads(s) == s.json
\* InvestigationCache.save_investigation_metadata: the analysis data handed
\* to the store, prompt_metadata when prompt versions are supplied
analysis_data_of(prompt_versions) ==
    IF prompt_versions.given /\ DOMAIN prompt_versions.versions # {}
    THEN [prompt_metadata |-> PromptMetadata(prompt_versions.versions)]
    ELSE << >>
\* DynamoDBClient.save_investigation_metadata: the item of put_item
investigation_item(latest_commit, branch_name, analysis_data) ==
    LET item == [exists |-> TRUE, latest_commit |-> latest_commit, branch_name |-> branch_name]
    IN  IF analysis_data # << >>
        THEN [k \in DOMAIN item \cup {"analysis_data"} |->
                 IF k = "analysis_data" THEN json_dumps(analysis_data) ELSE item[k]]
        ELSE item
\* DynamoDBClient.get_latest_investigation: the item with its analysis data parsed
latest_item(item) ==
    IF item.exists /\ "analysis_data" \in DOMAIN item
    THEN [item EXCEPT !.analysis_data = json_loads(@)]
    ELSE item
\* the record the decision works on: last_investigation.get("prompt_metadata")
record_of_item(item) ==
    IF ~item.exists THEN NoRecord
    ELSE InvestigationMetadata(item.latest_commit, item.branch_name,
                               Get(item, "prompt_metadata", NoPromptMetadata))

\* the repository states of these runs: clean working copies
RecordGitStates == {RepositoryState(c, b, FALSE) : c \in Commits, b \in Branches}

RecordInit ==
    /\ table = [r \in Repos |-> NoRecord]
    /\ pc = "idle"
    /\ call = NoCall
    /\ decision = NoCall
    /\ saved = "none"
    /\ force = FALSE
    /\ result = NoCall
    /\ results = NoItems
    /\ history = [t \in PromptTuples |-> None]
    /\ last = NoCall
    /\ collector = [base_sections |-> << >>, processing_order |-> << >>, prompt_versions |-> << >>]
    /\ combined = NoCall
    /\ runs = NoRuns
    /\ items = NoItems
    /\ clock = 0
    /\ written = None
    /\ prompts = [processing_order |-> << >>, files |-> << >>]
    /\ loaded = NoCall
    /\ read = NoCall
    /\ stage = "off"
    /\ tracked = << >>
    /\ ops = << >>
    /\ retrieved = NoCall
    /\ document = NoCall
    /\ step_results = << >>
    /\ validation = NoCall
    /\ plan = NoCall
    /\ step_index = 0
    /\ step_result_keys = << >>
    /\ calls = << >>
    /\ analysis = NoCall

\* step 9 of a run that investigated the repository at the state git with
\* the prompt versions pv: the metadata save
SaveRecord(repo, git, pv) ==
    /\ table' = [table EXCEPT ![repo] =
                    investigation_item(git.commit_sha, git.branch_name, analysis_data_of(pv))]
    /\ call' = [op |-> "save", repo_name |-> repo, git |-> git, prompt_versions |-> pv]
    /\ decision' = NoCall
    /\ saved' = "success"
    /\ UNCHANGED <<pc, force, result>>
    /\ UNCHANGED <<cacheVars, combineVars, raceVars, promptVars, stepsVars, validateVars, analyzeVars>>

\* step 2 of the next run: the decision on the latest item of the store
DecideOnRecord(repo, git, pv) ==
    /\ call # NoCall
    /\ decision' = [repo_name |-> repo, git |-> git, prompt_versions |-> pv,
                    out |-> check_if_repo_needs_investigation(
                               [repo_name |-> repo, prompt_versions |-> pv],
                               Ok(git), Ok("client"), Ok("query"),
                               [r \in Repos |-> record_of_item(latest_item(table[r]))])]
    /\ UNCHANGED <<table, pc, call, saved, force, result>>
    /\ UNCHANGED <<cacheVars, combineVars, raceVars, promptVars, stepsVars, validateVars, analyzeVars>>

RecordNext ==
    \/ \E repo \in Repos, git \in RecordGitStates, pv \in PromptVersionInputs : SaveRecord(repo, git, pv)
    \/ \E repo \in Repos, git \in RecordGitStates, pv \in PromptVersionInputs : DecideOnRecord(repo, git, pv)

RecordSpec == RecordInit /\ [][RecordNext]_vars

(***************************************************************************)
(* The prompt result cache used by repositories and steps whose names      *)
(* contain the separator of the key.  PromptCacheKey accepts every name    *)
(* without '#', '/' and '\'; the names below are accepted.                 *)
(***************************************************************************)
KeyRepos == {"svc", "svc_api"}
KeySteps == {"hl_overview", "api_hl_overview"}
KeyCommits == {"abc123def456"}
KeyVersions == {"1"}
KeyTuples ==
    {[repo_name |-> r, step_name |-> s, commit_sha |-> c, prompt_version |-> v] :
        r \in KeyRepos, s \in KeySteps, c \in KeyCommits, v \in KeyVersions}

KeysInit ==
    /\ table = [r \in Repos |-> NoRecord]
    /\ pc = "idle"
    /\ call = NoCall
    /\ decision = NoCall
    /\ saved = "none"
    /\ force = FALSE
    /\ result = NoCall
    /\ results = NoItems
    /\ history = [t \in KeyTuples |-> None]
    /\ last = NoCall
    /\ collector = [base_sections |-> << >>, processing_order |-> << >>,
                    prompt_versions |-> << >>]
    /\ combined = NoCall
    /\ runs = NoRuns
    /\ items = NoItems
    /\ clock = 0
    /\ written = None
    /\ prompts = [processing_order |-> << >>, files |-> << >>]
    /\ loaded = NoCall
    /\ read = NoCall
    /\ stage = "off"
    /\ tracked = << >>
    /\ ops = << >>
    /\ retrieved = NoCall
    /\ document = NoCall
    /\ step_results = << >>
    /\ validation = NoCall
    /\ plan = NoCall
    /\ step_index = 0
    /\ step_result_keys = << >>
    /\ calls = << >>
    /\ analysis = NoCall

KeysNext ==
    \/ \E t \in KeyTuples, content \in Contents, fault \in StorageFaults :
          SavePromptResult(t, content, fault)
    \/ \E t \in KeyTuples, fault \in StorageFaults : CheckPrompt(t, fault)

KeysSpec == KeysInit /\ [][KeysNext]_vars

(***************************************************************************)
(* The analysis steps of a run: the loop of _process_analysis_steps over   *)
(* the processing order and the activity analyze_with_claude_context.      *)
(*                                                                         *)
(* A step configuration is a dictionary with the keys name and context,    *)
(* the list of the steps whose results the step asks for; an entry of the  *)
(* list is a step name or a dictionary {"val": step name}, and both give   *)
(* the name.  The context of an analysis is the list of its parts, one for *)
(* every context key that has a stored result; the heading of a part is    *)
(* derived from its key.                                                   *)
(***************************************************************************)
\* the fields of the pydantic model ClaudeConfigOverrides
ClaudeConfigOverridesFields == {"claude_model", "max_tokens", "temperature"}
\* ClaudeConfigOverrides(**config_overrides.model_dump()).model_dump(): the
\* keys that are no field of the model are dropped
ClaudeConfigOverrides(config_overrides) ==
    [k \in ClaudeConfigOverridesFields |-> Get(config_overrides, k, None)]
\* getattr(d, name, default) of a dictionary d: its keys are no attributes
getattr_of_dict(d, name, default) == default

\* a result content is false in a condition when it is None or empty
TruthyContent(content) == content # None /\ content.size > 0

\* variant: only the first declared context step is looked up
context_reference_keys_first_only(context_config, step_keys) ==
    IF context_config # << >> /\ Head(context_config) \in DOMAIN step_keys
    THEN <<step_keys[Head(context_config)]>>
    ELSE << >>

(***************************************************************************)
(* _process_analysis_steps, the context references of a step: the result   *)
(* keys of the declared context steps that are in step_results, in the     *)
(* declared order; a step that is not in step_results is passed over.      *)
(***************************************************************************)
RECURSIVE context_reference_keys(_, _)
context_reference_keys(context_config, step_keys) ==
    IF context_config = << >> THEN << >>
    ELSE LET step_ref == Head(context_config)
             rest == context_reference_keys(Tail(context_config), step_keys)
         IN  IF step_ref \in DOMAIN step_keys /\ step_keys[step_ref] # "None"
             THEN <<step_keys[step_ref]>> \o rest
             ELSE rest

(***************************************************************************)
(* DynamoDBPromptContext.get_prompt_and_context, the context: one part for *)
(* every context key whose result is stored; a key without a result is     *)
(* passed over; a storage error is raised.                                 *)
(***************************************************************************)
RECURSIVE build_context(_, _, _)
build_context(tbl, context_keys, fault) ==
    IF context_keys = << >> THEN Ok(<< >>)
    ELSE LET got == get_analysis_result(tbl, Head(context_keys), fault)
             rest == build_context(tbl, Tail(context_keys), fault)
         IN  IF ~got.ok THEN got
             ELSE IF ~rest.ok THEN rest
             ELSE IF TruthyContent(got.value)
             THEN Ok(<<[context_key |-> Head(context_keys), result |-> got.value]>>
                     \o rest.value)
             ELSE rest

AnalyzeWithClaudeOutput(status, context, result_length, cached, reason) ==
    [status |-> status, context |-> context, result_length |-> result_length,
     cached |-> cached, cache_reason |-> reason]
AnalysisFailed == Raise("Failed to analyze with Claude")

\* variant: a cached result is never used
use_cached_result_never(cache_check) == FALSE

\* analyze_with_claude_context, line 555: if cache_check["cached_result"]
use_cached_result(cache_check) == TruthyContent(cache_check.cached_result)

(***************************************************************************)
(* analyze_with_claude_context.  The outcome holds the store after the     *)
(* call, whether the prompt cache was looked up, the cache check, the      *)
(* calls of the analysis service (none or one, with the context passed)    *)
(* and the returned output or the raised exception.  analysis_text is the  *)
(* outcome of ClaudeAnalyzer.analyze_with_context.                         *)
(***************************************************************************)
analyze_with_claude_context(tbl, context_dict, config_overrides, latest_commit, check_fault, context_fault, analysis_text, save_fault) ==
    LET repo_name == context_dict.repo_name
        step_name == context_dict.step_name
        prompt_version == context_dict.prompt_version
        checks_cache == latest_commit # "None"
        force_section == IF config_overrides # << >>
                         THEN getattr_of_dict(config_overrides, "force_section", "None")
                         ELSE "None"
        should_force_this_step == Truthy(force_section) /\ force_section = step_name
        cache_check ==
            IF ~checks_cache THEN << >>
            ELSE IF should_force_this_step
            THEN [needs_analysis |-> TRUE, cached_result |-> None,
                  reason |-> CacheReason("Force section override for {step_name}", "")]
            ELSE check_prompt_needs_analysis(tbl, repo_name, step_name, latest_commit,
                                             prompt_version, check_fault).value
        looked_up == checks_cache /\ ~should_force_this_step
    IN  IF checks_cache /\ use_cached_result(cache_check)
        THEN LET key == Get(cache_check, "cached_result_key", "None")
                 result_key == IF Truthy(key) THEN key
                               ELSE to_storage_key(repo_name, step_name, latest_commit,
                                                   prompt_version)
             IN  [table |-> tbl, looked_up |-> looked_up, cache_check |-> cache_check,
                  service_calls |-> << >>,
                  result |-> Ok(AnalyzeWithClaudeOutput("success",
                                   [context_dict EXCEPT !.result_reference_key = result_key],
                                   cache_check.cached_result.size, TRUE,
                                   cache_check.reason))]
        ELSE
          LET data == build_context(tbl, context_dict.context_reference_keys, context_fault)
              commit_to_use == IF latest_commit # "None" THEN latest_commit ELSE "no-commit"
              put == save_prompt_result(tbl, repo_name, step_name, commit_to_use,
                                        analysis_text.value, prompt_version, TtlDays, save_fault)
          IN  IF ~data.ok
              THEN [table |-> tbl, looked_up |-> looked_up, cache_check |-> cache_check,
                    service_calls |-> << >>, result |-> AnalysisFailed]
              ELSE IF ~analysis_text.ok
              THEN [table |-> tbl, looked_up |-> looked_up, cache_check |-> cache_check,
                    service_calls |-> <<[step_name |-> step_name, context |-> data.value]>>,
                    result |-> AnalysisFailed]
              ELSE IF put.result.status # "success"
              THEN [table |-> put.table, looked_up |-> looked_up,
                    cache_check |-> cache_check,
                    service_calls |-> <<[step_name |-> step_name, context |-> data.value]>>,
                    result |-> AnalysisFailed]
              ELSE [table |-> put.table, looked_up |-> looked_up,
                    cache_check |-> cache_check,
                    service_calls |-> <<[step_name |-> step_name, context |-> data.value]>>,
                    result |-> Ok(AnalyzeWithClaudeOutput("success",
                                     [context_dict EXCEPT
                                         !.result_reference_key = put.result.cache_key],
                                     analysis_text.value.size, FALSE, "None"))]

\* the steps of the run and the context each of them declares
AnalyzeSteps == {"hl_overview", "apis", "monitoring"}
DeclaredContext(step_name) ==
    IF step_name = "apis" THEN <<"hl_overview">>
    ELSE IF step_name = "monitoring" THEN <<"hl_overview", "apis">>
    ELSE << >>
AnalyzeOrders ==
    {[i \in DOMAIN o |-> [name |-> o[i], context |-> DeclaredContext(o[i])]] :
        o \in {o \in [1..Cardinality(AnalyzeSteps) -> AnalyzeSteps] :
                  \A i, j \in DOMAIN o : i # j => o[i] # o[j]}}
\* the version read from the prompt file of a step
AnalyzeVersion(step_name) == IF step_name = "apis" THEN "2" ELSE "1"
AnalyzeCommit == "abc123def456"
\* the overrides of the request: none, or the section to force
AnalyzeOverrides == {<< >>, [force_section |-> "apis"]}
AnalyzePlans ==
    [processing_order : AnalyzeOrders, config_overrides : AnalyzeOverrides,
     latest_commit : {AnalyzeCommit, "None"}]
\* the contents: what an earlier run stored and what the service returns now
StoredContent(step_name) == [text |-> "Stored analysis of " \o step_name, size |-> 19]
NewContent(step_name) == [text |-> "New analysis of " \o step_name, size |-> 16]
AnalyzeKey(step_name) ==
    to_storage_key("test-repo", step_name, AnalyzeCommit, AnalyzeVersion(step_name))
\* the store an earlier run of the same commit and versions left: entries of
\* the steps S
StoreWith(S) ==
    [p \in {ResultPartition(AnalyzeKey(n)) : n \in S} |->
        LET n == CHOOSE m \in S : ResultPartition(AnalyzeKey(m)) = p
        IN  save_prompt_result(NoItems, "test-repo", n, AnalyzeCommit, StoredContent(n),
                               AnalyzeVersion(n), TtlDays, Ok("storage")).table[p]]

AnalyzeInit ==
    /\ table = [r \in Repos |-> NoRecord]
    /\ pc = "idle"
    /\ call = NoCall
    /\ decision = NoCall
    /\ saved = "none"
    /\ force = FALSE
    /\ result = NoCall
    /\ results \in {StoreWith(S) : S \in SUBSET AnalyzeSteps}
    /\ history = [t \in PromptTuples |-> None]
    /\ last = NoCall
    /\ collector = [base_sections |-> << >>, processing_order |-> << >>,
                    prompt_versions |-> << >>]
    /\ combined = NoCall
    /\ runs = NoRuns
    /\ items = NoItems
    /\ clock = 0
    /\ written = None
    /\ prompts = [processing_order |-> << >>, files |-> << >>]
    /\ loaded = NoCall
    /\ read = NoCall
    /\ stage = "off"
    /\ tracked = << >>
    /\ ops = << >>
    /\ retrieved = NoCall
    /\ document = NoCall
    /\ step_results = << >>
    /\ validation = NoCall
    /\ plan \in AnalyzePlans
    /\ step_index = 1
    /\ step_result_keys = << >>
    /\ calls = << >>
    /\ analysis = NoCall

(***************************************************************************)
(* _process_analysis_steps, one turn of the loop: the context references   *)
(* of the step, the activity analyze_with_claude_context and the entry of  *)
(* the result key in step_results.  An activity that raises ends the run.  *)
(* At most one of the calls of a turn fails.                               *)
(***************************************************************************)
ProcessStep(check_fault, context_fault, service, save_fault) ==
    /\ plan # NoCall
    /\ step_index \in 1..Len(plan.processing_order)
    /\ Cardinality({f \in {<<1, check_fault>>, <<2, context_fault>>, <<3, service>>,
                           <<4, save_fault>>} : ~f[2].ok}) <= 1
    /\ LET step == plan.processing_order[step_index]
           step_name == step.name
           context_dict == [repo_name |-> "test-repo", step_name |-> step_name,
                            prompt_version |-> AnalyzeVersion(step_name),
                            context_reference_keys |->
                               context_reference_keys(step.context, step_result_keys),
                            data_reference_key |-> "prompt_data_" \o step_name,
                            result_reference_key |-> "None"]
           out == analyze_with_claude_context(
                     results, context_dict, ClaudeConfigOverrides(plan.config_overrides),
                     plan.latest_commit, check_fault, context_fault,
                     IF service.ok THEN Ok(NewContent(step_name)) ELSE service, save_fault)
       IN  /\ results' = out.table
           /\ calls' = calls \o out.service_calls
           /\ analysis' = [op |-> "analyze", index |-> step_index, step_name |-> step_name,
                           context_dict |-> context_dict, looked_up |-> out.looked_up,
                           cache_check |-> out.cache_check,
                           service_calls |-> out.service_calls, result |-> out.result]
           /\ IF out.result.ok /\ out.result.value.status = "success"
              THEN /\ step_result_keys' =
                         [n \in DOMAIN step_result_keys \cup {step_name} |->
                             IF n = step_name
                             THEN out.result.value.context.result_reference_key
                             ELSE step_result_keys[n]]
                   /\ step_index' = step_index + 1
              ELSE /\ step_result_keys' = step_result_keys
                   /\ step_index' = 0
    /\ UNCHANGED <<plan, history, last>>
    /\ UNCHANGED <<runVars, combineVars, raceVars, promptVars, stepsVars, validateVars>>

AnalyzeNext ==
    \E check_fault \in StorageFaults, context_fault \in StorageFaults,
       service \in Outcomes({"analysis"}, {"Failed to get analysis from Claude"}),
       save_fault \in StorageFaults :
        ProcessStep(check_fault, context_fault, service, save_fault)

AnalyzeSpec == AnalyzeInit /\ [][AnalyzeNext]_vars

(***************************************************************************)
(* Vocabulary of the prompt-cache properties.                              *)
(***************************************************************************)
Saved == last.op = "save" /\ last.result.status = "success"
CheckedPrompt == last.op = "check"
Hit == CheckedPrompt /\ last.result.ok /\ ~last.result.value.needs_analysis
\* the outcome of a check of the prompt tuple u against the items tbl
CheckOf(tbl, u) ==
    check_prompt_needs_analysis(tbl, u.repo_name, u.step_name, u.commit_sha,
                                u.prompt_version, Ok("storage"))

(***************************************************************************)
(* C11: a check of (repository, step, commit, version) that follows a      *)
(* successful save of a content under the same four values returns         *)
(* needs_analysis = FALSE with cached_result equal to the saved content.   *)
(***************************************************************************)
C11_SaveThenCheckRoundTrip ==
    (CheckedPrompt /\ last.follows # None /\ last.fault.ok) =>
      /\ last.result.ok
      /\ last.result.value.needs_analysis = FALSE
      /\ last.result.value.cached_result = last.follows

\* the content is above the compression threshold and is stored compressed
C11_Witness ==
    /\ CheckedPrompt /\ last.follows # None /\ last.fault.ok
    /\ last.follows.size > CompressionThreshold
    /\ results[ResultPartition(KeyOf(last.tuple))].is_compressed
    /\ last.result.value.cached_result = last.follows

(***************************************************************************)
(* C12: the prompt cache check never raises; when no unexpired entry is    *)
(* stored under the key (a miss) and when the storage call fails it        *)
(* returns needs_analysis = TRUE with no cached result and no key.         *)
(***************************************************************************)
C12_CheckFailsOpen ==
    CheckedPrompt =>
      /\ last.result.ok
      /\ (~last.fault.ok \/ ~Live(last.tuple)) =>
           /\ last.result.value.needs_analysis
           /\ last.result.value.cached_result = None
           /\ last.result.value.cached_result_key = "None"

\* the storage call fails although an unexpired entry is stored under the key
C12_Witness ==
    /\ CheckedPrompt /\ ~last.fault.ok /\ Live(last.tuple)
    /\ last.result.ok
    /\ last.result.value.needs_analysis
    /\ last.result.value.reason.error \in QueryErrors

(***************************************************************************)
(* C13: a save under (repository, step, commit, version) leaves the        *)
(* outcome of a check of every prompt tuple that differs in the commit or  *)
(* in the version as it was before the save.                               *)
(***************************************************************************)
C13_SaveLeavesOtherKeys ==
    [][last'.op = "save" =>
         \A u \in PromptTuples :
            (u.commit_sha # last'.tuple.commit_sha
               \/ u.prompt_version # last'.tuple.prompt_version)
              => CheckOf(results', u) = CheckOf(results, u)]_vars

\* a content was saved while entries with another content are stored for the
\* same commit under another version and for another commit under the same version
C13_Witness ==
    /\ Saved
    /\ \E u \in PromptTuples :
          /\ u.commit_sha = last.tuple.commit_sha
          /\ u.prompt_version # last.tuple.prompt_version
          /\ Live(u) /\ CheckOf(results, u).value.cached_result # last.content
    /\ \E u \in PromptTuples :
          /\ u.commit_sha # last.tuple.commit_sha
          /\ u.prompt_version = last.tuple.prompt_version
          /\ Live(u) /\ CheckOf(results, u).value.cached_result # last.content

ExpectedKeys ==
    {<<"abc123def456", "1", "test-repo_hl_overview_abc123def456_v1">>,
     <<"abc123def456", "2", "test-repo_hl_overview_abc123def456_v2">>,
     <<"def456789012", "1", "test-repo_hl_overview_def456789012_v1">>,
     <<"def456789012", "2", "test-repo_hl_overview_def456789012_v2">>}
ExpectedKey(t) ==
    (CHOOSE e \in ExpectedKeys : e[1] = t.commit_sha /\ e[2] = t.prompt_version)[3]

C15_KeyFormat ==
    /\ Saved =>
         /\ last.result.cache_key = ExpectedKey(last.tuple)
         /\ "_result_" \o ExpectedKey(last.tuple) \in DOMAIN results
         /\ results["_result_" \o ExpectedKey(last.tuple)].reference_key
              = ExpectedKey(last.tuple)
    /\ Hit => last.result.value.cached_result_key = ExpectedKey(last.tuple)
    /\ (CheckedPrompt /\ last.fault.ok) =>
         (Hit <=> /\ "_result_" \o ExpectedKey(last.tuple) \in DOMAIN results
                  /\ ~results["_result_" \o ExpectedKey(last.tuple)].expired)

\* the check that follows a save reports the key the save reported
C15_Witness ==
    /\ Hit /\ last.follows # None
    /\ last.tuple.prompt_version = "2"
    /\ last.result.value.cached_result_key = "test-repo_hl_overview_" \o
                                             last.tuple.commit_sha \o "_v2"


(***************************************************************************)
(* Vocabulary of the claims about combine_results.                         *)
(***************************************************************************)
Combined == combined.op = "combine"
OrderNames == [i \in 1..Len(collector.processing_order) |-> collector.processing_order[i].name]
OutNames == [i \in 1..Len(combined.out.combined_results) |-> combined.out.combined_results[i].name]
EntriesOf(n) == {e \in SeqToSet(combined.out.combined_results) : e.name = n}
Logged(level, text, n) == LogRecord(level, text, n) \in SeqToSet(combined.out.log)
Returned == combined.out.result.ok /\ combined.out.result.value = combined.out.combined_results
MonitoringError == Raise("Critical: Monitoring section missing from final results!")

\* C16: the step names of the output of combine_results are the configured
\* processing order with the omitted steps removed, whatever results_map and
\* cached_results_map hold; a returned list is that output.
C16_OutputFollowsOrder ==
    Combined =>
        /\ OutNames = SelectSeq(OrderNames, LAMBDA n : EntriesOf(n) # {})
        /\ combined.out.result.ok => Returned

\* a run of three steps in an order that is neither alphabetical nor new-first,
\* one step omitted, a cached entry ahead of a new one
C16_Witness ==
    /\ Combined
    /\ OrderNames = <<"monitoring", "hl_overview", "apis">>
    /\ Returned
    /\ OutNames = <<"monitoring", "apis">>
    /\ "monitoring" \notin DOMAIN combined.results_map
    /\ "apis" \in DOMAIN combined.results_map

\* what combine_results does with one step, from the inputs of that step alone
ChoiceOf(n) ==
    LET fresh == combined.results_map
        cache == combined.cached_results_map
        current == Get(collector.prompt_versions, n, "1")
    IN  IF n \in DOMAIN fresh
        THEN /\ \A e \in EntriesOf(n) : ~e.cached /\ e.content = fresh[n]
             /\ Truthy(fresh[n]) => EntriesOf(n) # {}
             /\ Logged("info", "Using new result for step", n)
        ELSE IF n \in DOMAIN cache
        THEN /\ EntriesOf(n) # {}
             /\ \A e \in EntriesOf(n) : e.cached /\ e.content = cache[n].content
             /\ IF cache[n].version = current
                THEN Logged("info", "Using cached result for step", n)
                ELSE Logged("warning", "Using outdated cached result for step", n)
        ELSE EntriesOf(n) = {}

\* C17: for each configured step combine_results takes the new result when
\* the step is in results_map (cached false), otherwise the cached entry of
\* the current version (cached true), otherwise the cached entry of another
\* version (cached true, logged as outdated); the inputs of the other steps
\* play no part.
C17_FreshThenCachedThenOutdated ==
    Combined => \A n \in SeqToSet(OrderNames) : ChoiceOf(n)

\* the three cases in one call, the new result chosen over a cached entry of
\* the current version
C17_Witness ==
    /\ Combined
    /\ \E a, b, c \in SeqToSet(OrderNames) :
          /\ a \in DOMAIN combined.results_map /\ Truthy(combined.results_map[a])
          /\ a \in DOMAIN combined.cached_results_map
          /\ combined.cached_results_map[a].version = Get(collector.prompt_versions, a, "1")
          /\ \E e \in EntriesOf(a) : ~e.cached
          /\ b \notin DOMAIN combined.results_map
          /\ Logged("info", "Using cached result for step", b)
          /\ \E e \in EntriesOf(b) : e.cached
          /\ c \notin DOMAIN combined.results_map
          /\ Logged("warning", "Using outdated cached result for step", c)
          /\ \E e \in EntriesOf(c) : e.cached

\* C18 as stated: whenever the monitoring section is absent from the combined
\* output, combine_results raises.
C18_Original ==
    (Combined /\ EntriesOf("monitoring") = {}) => ~combined.out.result.ok

\* C18: combine_results raises exactly when the collector's base sections
\* include monitoring and the monitoring section is absent from the combined
\* output; a collector with no base sections, or with base sections that do
\* not include monitoring, returns the list without it.
C18_RaisesIfBaseMonitoringMissing ==
    Combined =>
        IF "monitoring" \in SeqToSet(collector.base_sections) /\ EntriesOf("monitoring") = {}
        THEN combined.out.result = MonitoringError
        ELSE Returned

\* the monitoring step was configured and had no content, and the call raised
C18_Witness ==
    /\ Combined
    /\ "monitoring" \in SeqToSet(collector.base_sections)
    /\ "monitoring" \in SeqToSet(OrderNames)
    /\ "monitoring" \notin DOMAIN combined.results_map \cup DOMAIN combined.cached_results_map
    /\ EntriesOf("hl_overview") # {}
    /\ combined.out.result = MonitoringError

\* a required step other than monitoring with neither a new nor a cached result
MissingRequired(i) ==
    LET step_config == collector.processing_order[i]
    IN  /\ step_config.name # "monitoring"
        /\ Get(step_config, "required", TRUE)
        /\ step_config.name \notin DOMAIN combined.results_map
        /\ step_config.name \notin DOMAIN combined.cached_results_map

\* C19: when a required step other than monitoring has neither a new nor a
\* cached content, combine_results logs an error for it, omits it and keeps
\* the entries of all other steps with content; the call raises only for a
\* missing monitoring base section, never on account of that step.
C19_MissingRequiredIsLogged ==
    Combined =>
        \A i \in 1..Len(collector.processing_order) :
            MissingRequired(i) =>
                /\ Logged("error", "Missing required step in results", OrderNames[i])
                /\ EntriesOf(OrderNames[i]) = {}
                /\ \A n \in SeqToSet(OrderNames) \ {OrderNames[i]} :
                      (\/ n \in DOMAIN combined.results_map /\ Truthy(combined.results_map[n])
                       \/ n \in DOMAIN combined.cached_results_map /\ n \notin DOMAIN combined.results_map)
                          => EntriesOf(n) # {}
                /\ ~Returned => /\ "monitoring" \in SeqToSet(collector.base_sections)
                                /\ EntriesOf("monitoring") = {}

\* a base section that is required has no content, monitoring has, and the
\* call returned the other entries
C19_Witness ==
    /\ Combined
    /\ collector.base_sections = <<"hl_overview", "apis", "monitoring">>
    /\ \E i \in 1..Len(collector.processing_order) :
          /\ MissingRequired(i)
          /\ OrderNames[i] = "apis"
    /\ Returned
    /\ OutNames = <<"hl_overview", "monitoring">>


\* a step of the run that writes an investigation record or reports a
\* metadata save
WritesRecord ==
    \/ \E r \in Repos : table'[r] # table[r] /\ table'[r].exists
    \/ pc # "idle" /\ pc' = "idle" /\ saved' # "none"

\* C20: an investigation record is written only by a run whose investigation
\* completed: the decision asked for an investigation, steps 3 to 7 returned
\* and the hub save did not fail.  A run that is skipped, or that fails at an
\* earlier stage, ends without a write and without a metadata save.
C20_RecordOnlyAfterFullInvestigation ==
    [][/\ WritesRecord => pc = "published"
       /\ pc' = "published" => pc = "analysed" /\ UNCHANGED <<call, decision>>
       /\ pc' = "analysed" => /\ pc = "checked" /\ (decision.needs_investigation \/ force)
                              /\ call'.repo_name = call.repo_name
                              /\ call'.prompt_versions = call.prompt_versions
                              /\ decision'.latest_commit = decision.latest_commit
                              /\ decision'.branch_name = decision.branch_name
       /\ (pc \in {"checked", "analysed"} /\ pc' = "idle") => table' = table /\ saved' = "none"]_vars

\* a run that went through every stage has written the record of its commit
C20_Witness ==
    /\ pc = "idle"
    /\ saved = "success"
    /\ \E r \in Repos : table[r].exists


(***************************************************************************)
(* Vocabulary of the claims about the outcome of a run.                    *)
(***************************************************************************)
RunEnded == pc = "idle" /\ result # NoCall
RunReturned == RunEnded /\ result.ok
RunRaised == RunEnded /\ ~result.ok
Skipped(reason) == Ok(InvestigateSingleRepoResult("skipped", TRUE, reason, None, None))

\* C21: when the decision is needs_investigation = FALSE and force is not
\* set, the next step of the run is its end: it returns status "skipped" with
\* cached = TRUE, without an analysis step, a hub save or a metadata save
\* (no architecture_hub, no metadata_saved, the table as it was).
C21_SkippedRunEndsEarly ==
    [][(pc = "checked" /\ ~decision.needs_investigation /\ ~force) =>
          /\ pc' = "idle"
          /\ result' = Skipped(decision.reason)
          /\ result'.value.status = "skipped" /\ result'.value.cached
          /\ table' = table
          /\ saved' = "none"]_vars

\* a run was skipped while the record of its repository is stored
C21_Witness ==
    /\ RunReturned
    /\ result.value.status = "skipped"
    /\ result.value.cached
    /\ saved = "none"
    /\ \E r \in Repos : table[r].exists

\* C22: a failure of the metadata save is reported and never raised: the
\* step after the hub save always returns status "success" with
\* metadata_saved set; a failed save carries status "error" or "failed" and
\* no timestamp and leaves the table as it was, a successful one carries a
\* timestamp.
C22_MetadataSaveFailureReported ==
    [][pc = "published" =>
          /\ pc' = "idle"
          /\ result'.ok
          /\ result'.value.status = "success"
          /\ ~result'.value.cached
          /\ result'.value.metadata_saved # None
          /\ saved' = result'.value.metadata_saved.status
          /\ IF result'.value.metadata_saved.status = "success"
             THEN result'.value.metadata_saved.timestamp # "None"
             ELSE /\ result'.value.metadata_saved.status \in {"error", "failed"}
                  /\ result'.value.metadata_saved.timestamp = "None"
                  /\ table' = table]_vars

\* a run returned "success" although the store rejected its metadata save
C22_Witness ==
    /\ RunReturned
    /\ result.value.status = "success"
    /\ result.value.metadata_saved # None
    /\ result.value.metadata_saved.status = "error"
    /\ result.value.metadata_saved.timestamp = "None"
    /\ \A r \in Repos : ~table[r].exists

\* C23 as stated: when the hub save fails after a successful analysis the
\* run goes on: the failure is recorded in architecture_hub, the metadata save
\* is reached and the run is not ended by the hub save.
C23_Original ==
    [][pc = "analysed" => /\ pc' = "published"
                          /\ result'.architecture_hub # None]_vars


(***************************************************************************)
(* Vocabulary of the claims about two investigations at the same time.     *)
(***************************************************************************)
RaceKey(r) == ResultPartition(to_storage_key(RaceRepo, RaceStep, RaceCommit(r), RaceVersion))
RaceEntry(tbl, r) == IF RaceKey(r) \in DOMAIN tbl THEN tbl[RaceKey(r)] ELSE None
LatestTimestamp == CHOOSE t \in DOMAIN items : \A u \in DOMAIN items : u <= t

\* C24: for two investigations of one repository on different commits, in
\* every interleaving of their prompt-cache checks and saves a check returns
\* no content or the content saved for its own (repository, step, commit,
\* version), and a step of one investigation leaves the stored entry of the
\* other as it was.
C24_ConcurrentRunsKeepOwnEntries ==
    [][\A r \in Investigations :
          /\ runs'[r].seen # None => runs'[r].seen = RaceContent(r)
          /\ runs'[r] = runs[r] => RaceEntry(results', r) = RaceEntry(results, r)]_vars

\* both investigations found their own content while both entries are stored
C24_Witness ==
    /\ \A r \in Investigations : runs[r].seen = RaceContent(r)
    /\ RaceEntry(results, "first") # None
    /\ RaceEntry(results, "second") # None
    /\ RaceEntry(results, "first") # RaceEntry(results, "second")

\* C25 as stated: the record that the next decision reads is the one whose
\* put_item was the last.
C25_Original ==
    written # None => LatestItem(items) = RaceRecord(written.run)

\* C25: the put of an investigation record is always possible (no lock, no
\* condition); the record the next decision reads is, in its entirety, the
\* record of one investigation, namely the stored item of the greatest
\* analysis_timestamp; it is the record written last whenever no item of a
\* later timestamp is stored.
C25_LatestTimestampWins ==
    /\ \A r \in Investigations : runs[r].pc = "put" => ENABLED RacePut(r)
    /\ written # None =>
         /\ LatestItem(items) \in {RaceRecord(r) : r \in Investigations}
         /\ LatestItem(items) = items[LatestTimestamp]
         /\ written.timestamp = LatestTimestamp => LatestItem(items) = RaceRecord(written.run)

\* the second investigation drew its timestamp after the first and put its
\* record before it: the record read is the second's
C25_Witness ==
    /\ written # None
    /\ written.run = "first"
    /\ written.timestamp < LatestTimestamp
    /\ LatestItem(items) = RaceRecord("second")

(***************************************************************************)
(* Vocabulary of the claims about the prompt versions of a run.            *)
(***************************************************************************)
\* the steps of the processing order of the run
OrderSteps == SeqToSet(prompts.processing_order)
\* the prompt file of the step has content but no usable version header
BadHeader(step) ==
    /\ prompts.files[step].specified
    /\ prompts.files[step].readable
    /\ ~extract_prompt_version(prompts.files[step]).ok
\* no explicit version is given for the step: no file is named or it is missing
NoExplicitVersion(step) ==
    ~prompts.files[step].specified \/ ~prompts.files[step].readable
\* the prompt versions the decision of the run was computed from
DecisionVersions ==
    IF pc = "checked" /\ call.prompt_versions.given THEN call.prompt_versions.versions ELSE << >>
\* the stored records that carry prompt metadata
RecordsWithPromptMetadata ==
    {r \in Repos : table[r].exists /\ table[r].prompt_metadata.present}

\* C26: every stored record that carries prompt metadata has a count equal
\* to the number of entries of its versions and equal to the number of steps
\* of the processing order of the run that wrote it (step names are distinct).
C26_CountIsNumberOfSteps ==
    \A r \in RecordsWithPromptMetadata :
        /\ table[r].prompt_metadata.count = Cardinality(DOMAIN table[r].prompt_metadata.versions)
        /\ table[r].prompt_metadata.count = Len(prompts.processing_order)

\* a record of a run of two steps is stored
C26_Witness ==
    \E r \in RecordsWithPromptMetadata :
        /\ table[r].prompt_metadata.count = 2
        /\ Len(prompts.processing_order) = 2

\* C27: the versions a decision is computed from, the version in the key of a
\* cached result and the versions of a stored record are never empty, and a
\* step without explicit version (no prompt file named, or the file missing)
\* has version "1" in the loaded configuration and in the read prompt.
C27_VersionsNeverEmpty ==
    /\ \A s \in DOMAIN DecisionVersions : DecisionVersions[s] # ""
    /\ (read # NoCall /\ read.out.ok) => read.out.value.prompt_version # ""
    /\ \A r \in RecordsWithPromptMetadata :
          \A s \in DOMAIN table[r].prompt_metadata.versions :
              table[r].prompt_metadata.versions[s] # ""
    /\ (loaded # NoCall /\ loaded.ok) =>
          \A s \in OrderSteps :
              NoExplicitVersion(s) => loaded.value.prompt_versions[s] = "1"
    /\ (read # NoCall /\ read.out.ok /\ NoExplicitVersion(read.step)) =>
          read.out.value.prompt_version = "1"

\* a decision computed with a version stripped from a header and with the
\* default of a step without prompt file
C27_Witness ==
    /\ pc = "checked"
    /\ \E s, t \in DOMAIN DecisionVersions :
          /\ prompts.files[s] = PromptFile(FALSE, TRUE, " 2 ")
          /\ DecisionVersions[s] = "2"
          /\ ~prompts.files[t].specified
          /\ DecisionVersions[t] = "1"

\* C28 as stated: when the prompt of a step has an empty or missing version
\* header, loading the prompt versions raises, and no decision is computed
\* from a version of that step.
C28_Original ==
    \A s \in OrderSteps :
        BadHeader(s) =>
            /\ loaded # NoCall => ~loaded.ok
            /\ s \notin DOMAIN DecisionVersions

(***************************************************************************)
(* Vocabulary of the claims about the run of the analysis steps.           *)
(***************************************************************************)
\* the phase of an operation of the collector
OpRank(op) ==
    CASE op = "track_step" -> 1
      [] op = "validate_base_sections_present" -> 2
      [] op = "combine_results" -> 3
      [] op = "generate_final_analysis" -> 4
\* the position of the run, in the order of the phases
StageRank(position) ==
    CASE position = "collecting" -> 0
      [] position = "retrieved" -> 1
      [] position = "validated" -> 2
      [] position = "combined" -> 3
      [] position = "finalized" -> 4
      [] position = "failed" -> 5
\* no operation of an earlier phase after one of a later phase, and only
\* track_step more than once
InPhaseOrder(operations) ==
    \A i, j \in 1..Len(operations) :
        i < j => /\ OpRank(operations[i]) <= OpRank(operations[j])
                 /\ operations[i] = operations[j] => operations[i] = "track_step"
TrackOps(operations) == SelectSeq(operations, LAMBDA op : op = "track_step")

\* C29: in every step of a run of the analysis steps the operations of the
\* collector so far are in the order track_step (once per step tracked),
\* validate_base_sections_present, combine_results, generate_final_analysis,
\* and the position of the run never moves back to an earlier phase; only a
\* new run starts collecting again, with no operation done.
C29_PhasesNeverGoBack ==
    [][/\ InPhaseOrder(ops')
       /\ Len(TrackOps(ops')) = Len(tracked')
       /\ \/ StageRank(stage') >= StageRank(stage)
          \/ /\ stage \in {"finalized", "failed"}
             /\ stage' = "collecting"
             /\ ops' = << >>]_vars

\* a finished run of two steps went through the four phases
C29_Witness ==
    /\ stage = "finalized"
    /\ ops = <<"track_step", "track_step", "validate_base_sections_present",
               "combine_results", "generate_final_analysis">>

IsHeading(block) == \E n \in SectionNames : block = Heading(n)
IsContent(block) == block \in StepContents
HeadingAbsentError == LogRecord("error", "Monitoring section not found in final analysis output", "")

\* C30: generate_final_analysis returns, without raising, a text whose
\* headings are those of the combined results, one each and in the order of
\* combine_results, each with the content of its result; when the final
\* collector has the base section monitoring and no line of the text is the
\* monitoring heading, an error is logged and the text is returned.
C30_OneSectionPerResultInOrder ==
    document # NoCall =>
        /\ document.out.result.ok
        /\ document.results = combined.out.combined_results
        /\ SelectSeq(document.out.result.value, IsHeading)
             = [i \in 1..Len(document.results) |-> Heading(document.results[i].name)]
        /\ SelectSeq(document.out.result.value, IsContent)
             = [i \in 1..Len(document.results) |-> document.results[i].content]
        /\ ( /\ document.results # << >>
             /\ "monitoring" \in SeqToSet(document.base_sections)
             /\ \A i \in 1..Len(document.out.result.value) :
                   ~HasMonitoringLine(document.out.result.value[i]) )
           => \E i \in 1..Len(document.out.log) : document.out.log[i] = HeadingAbsentError

\* a text of two sections without monitoring heading, generated by a collector
\* whose base sections include monitoring
C30_Witness ==
    /\ document # NoCall
    /\ Len(document.results) = 2
    /\ "monitoring" \in SeqToSet(document.base_sections)
    /\ document.out.result.ok
    /\ Len(document.out.result.value) >= 4
    /\ \A i \in 1..Len(document.out.result.value) :
          ~HasMonitoringLine(document.out.result.value[i])
    /\ \E i \in 1..Len(document.out.log) : document.out.log[i] = HeadingAbsentError

(***************************************************************************)
(* Vocabulary of the claims about the validation of the base sections.     *)
(***************************************************************************)
\* the base sections of the collector that a call found untracked, as an
\* observer sees them: whatever their required flag
UntrackedBase(tracked_results) ==
    SelectSeq(collector.base_sections, LAMBDA s : s \notin DOMAIN tracked_results)

\* C31: validate_base_sections_present returns ok exactly when every base
\* section of the collector has been tracked, and returns the base sections
\* that have not been tracked, in the configured order, whatever the required
\* flags of the tracked steps.
C31_ValidationReturnsUntrackedBase ==
    validation # NoCall =>
        /\ validation.out.all_present
             <=> \A s \in SeqToSet(collector.base_sections) : s \in DOMAIN validation.step_results
        /\ validation.out.missing_base_sections = UntrackedBase(validation.step_results)

\* a validation that misses monitoring while a base section is tracked as
\* not required
C31_Witness ==
    /\ validation # NoCall
    /\ ~validation.out.all_present
    /\ validation.out.missing_base_sections = <<"monitoring">>
    /\ \E n \in DOMAIN validation.step_results : ~validation.step_results[n].required

(***************************************************************************)
(* Vocabulary of the claim about the record of a completed investigation.  *)
(***************************************************************************)
\* the decision was taken for the repository, commit, branch and prompt
\* versions of the record saved last
DecidedOnSavedState ==
    /\ decision # NoCall
    /\ decision.repo_name = call.repo_name
    /\ decision.git.commit_sha = call.git.commit_sha
    /\ decision.git.branch_name = call.git.branch_name
    /\ decision.prompt_versions = call.prompt_versions

\* C32 as stated: the decision that follows the metadata save of an
\* investigation, for the same repository, commit, branch and prompt
\* versions, asks for no investigation.
C32_Original ==
    DecidedOnSavedState => ~decision.out.needs_investigation

C35_Original ==
    [][(pc = "published" /\ force) =>
          /\ result'.ok
          /\ result'.value.reason.text = "Force flag enabled"]_vars

\* C36 as stated: distinct (repository, step, commit, version) tuples have
\* distinct prompt cache keys, so a cache check that returns a content
\* checked a key no other tuple has and returns the content most recently
\* saved for its own tuple.
C36_Original ==
    Hit => /\ \A u \in KeyTuples : u # last.tuple => KeyOf(u) # KeyOf(last.tuple)
           /\ history[last.tuple] # None
           /\ last.result.value.cached_result = history[last.tuple].last

\* C37 as stated: the version field of every entry of the output of
\* combine_results is the prompt version under which the content of the entry
\* was produced: the version stored with the cached entry for a cached
\* content, the current version of the step for a new one.
C37_Original ==
    Combined =>
        \A e \in SeqToSet(combined.out.combined_results) :
            IF e.cached
            THEN e.version = combined.cached_results_map[e.name].version
            ELSE e.version = Get(collector.prompt_versions, e.name, "1")

\* C38 as stated: a configured step is left out of the output of
\* combine_results only when it has neither a non-empty new result nor a
\* cached content; a step whose new result is empty or missing and which has
\* a cached content has an entry with the cached content.
C38_Original ==
    Combined =>
        \A n \in SeqToSet(OrderNames) :
            LET fresh == combined.results_map
                cache == combined.cached_results_map
            IN  /\ EntriesOf(n) = {} =>
                     /\ ~(n \in DOMAIN fresh /\ Truthy(fresh[n]))
                     /\ n \notin DOMAIN cache
                /\ (~(n \in DOMAIN fresh /\ Truthy(fresh[n])) /\ n \in DOMAIN cache) =>
                     /\ EntriesOf(n) # {}
                     /\ \A e \in EntriesOf(n) : e.cached /\ e.content = cache[n].content

(***************************************************************************)
(* Vocabulary of the claims about the analysis steps.                      *)
(***************************************************************************)
Analyzed == analysis.op = "analyze"
\* the prompt cache was looked up and the check returned a stored content
CacheReturnedContent(a) ==
    /\ a.op = "analyze"
    /\ a.looked_up
    /\ a.cache_check.cached_result # None
\* the key of the prompt tuple of the step of the call a
OwnKey(a) ==
    to_storage_key(a.context_dict.repo_name, a.step_name, plan.latest_commit,
                   a.context_dict.prompt_version)
\* the overrides of the request name the step as the section to force
ForcedStep(step_name) ==
    /\ "force_section" \in DOMAIN plan.config_overrides
    /\ plan.config_overrides.force_section = step_name
\* the place of a step in the configured order
PlaceOf(step_name) ==
    CHOOSE i \in DOMAIN plan.processing_order : plan.processing_order[i].name = step_name
\* the content stored under a result key
StoredResult(key) == get_analysis_result(results, key, Ok("storage")).value
\* the part of a context that holds the result of the completed step d
PartOf(d) == [context_key |-> step_result_keys[d], result |-> StoredResult(step_result_keys[d])]
ServiceCalled == Analyzed /\ analysis.service_calls # << >>
ContextOfCall == analysis.service_calls[1].context
DeclaredBy(step_name) == plan.processing_order[PlaceOf(step_name)].context

\* C34: a step whose prompt cache check returns a stored content is not
\* analysed by the service and no cache entry is written for it; the step is
\* returned as cached and the workflow keeps the cache key as its result key.
C34_CacheHitSkipsAnalysis ==
    [][CacheReturnedContent(analysis') =>
          /\ calls' = calls
          /\ results' = results
          /\ analysis'.result.ok
          /\ analysis'.result.value.status = "success"
          /\ analysis'.result.value.cached
          /\ analysis'.result.value.context.result_reference_key = OwnKey(analysis')
          /\ step_result_keys'[analysis'.step_name] = OwnKey(analysis')]_vars

\* the last step of a run is taken from the cache after an earlier step was
\* analysed by the service and written
C34_Witness ==
    /\ CacheReturnedContent(analysis)
    /\ analysis.index = Len(plan.processing_order)
    /\ analysis.result.value.cached
    /\ analysis.result.value.context.result_reference_key = AnalyzeKey(analysis.step_name)
    /\ calls # << >>
    /\ \A i \in DOMAIN calls : calls[i].step_name # analysis.step_name
    /\ results[ResultPartition(AnalyzeKey(analysis.step_name))].payload
          = StoredContent(analysis.step_name)

\* C39 as stated: when the overrides of the run name a step as the forced
\* section, the prompt cache is not looked up for that step and the step is
\* analysed by the service although a result is stored for its tuple.
C39_Original ==
    [][(analysis'.op = "analyze" /\ ForcedStep(analysis'.step_name)
          /\ analysis'.result.ok) =>
          /\ ~analysis'.looked_up
          /\ ~analysis'.result.value.cached
          /\ calls' # calls]_vars

\* C40 as stated: the context of a step that is analysed holds the result of
\* every step it declares as a context dependency, and holds only results of
\* steps that completed earlier in the configured order.
C40_Original ==
    ServiceCalled =>
        LET declared == SeqToSet(DeclaredBy(analysis.step_name))
        IN  /\ \A d \in declared :
                  /\ d \in DOMAIN step_result_keys
                  /\ PartOf(d) \in SeqToSet(ContextOfCall)
            /\ \A part \in SeqToSet(ContextOfCall) :
                  \E d \in DOMAIN step_result_keys :
                      PlaceOf(d) < analysis.index /\ part = PartOf(d)

\* C40 as amended: the context of a step that is analysed holds, in the
\* declared order, the results of the context dependencies that completed
\* earlier in the configured order and nothing else; it holds the result of
\* every declared dependency when the configured order lists each of them
\* before the step.
C40_ContextOfEarlierDependencies ==
    ServiceCalled =>
        LET earlier == SelectSeq(DeclaredBy(analysis.step_name),
                                 LAMBDA d : PlaceOf(d) < analysis.index)
        IN  /\ \A d \in SeqToSet(earlier) : d \in DOMAIN step_result_keys
            /\ ContextOfCall = [i \in DOMAIN earlier |-> PartOf(earlier[i])]

\* the last step declares two dependencies, both completed earlier, the first
\* taken from the cache and the second analysed in this run
C40_Witness ==
    /\ ServiceCalled
    /\ analysis.step_name = "monitoring"
    /\ analysis.index = Len(plan.processing_order)
    /\ Len(ContextOfCall) = Len(DeclaredBy("monitoring"))
    /\ ContextOfCall[1].result = StoredContent("hl_overview")
    /\ ContextOfCall[2].result = NewContent("apis")

====
